---- MODULE Spec2Model ----
(***************************************************************************)
(* A model of heat/core/linalg/solver.py: the conjugate gradients solver   *)
(* cg and the Lanczos iteration lanczos.                                    *)
(*                                                                         *)
(* cg is modelled with its arithmetic: numbers are exact rationals         *)
(* extended with the IEEE non-finite values (+inf, -inf, nan) that a       *)
(* division by zero produces.  Rounding and signed zeros are not modelled. *)
(* lanczos is modelled by its control flow, its stores into T and V, the   *)
(* split axes of its arrays and the collectives it issues; the values of   *)
(* its dot products and norms are drawn from small sets.                   *)
(***************************************************************************)
EXTENDS Integers, Sequences, FiniteSets, TLC

VARIABLES cg, lz, spmd, mm, ds, kr

vars == <<cg, lz, spmd, mm, ds, kr>>

None == "None"

(***************************************************************************)
(* Bounds of the model.                                                     *)
(***************************************************************************)
MaxN == 5

(***************************************************************************)
(* Numbers.  <<n, d>> with d > 0 is the rational n/d in lowest terms;      *)
(* <<1, 0>> is +inf, <<-1, 0>> is -inf and <<0, 0>> is nan.                *)
(***************************************************************************)
Abs(k) == IF k < 0 THEN -k ELSE k

Sign(k) == IF k < 0 THEN -1 ELSE IF k = 0 THEN 0 ELSE 1

RECURSIVE Gcd(_, _)
Gcd(a, c) == IF c = 0 THEN a ELSE Gcd(c, a % c)

Rat(n, d) ==
    IF d = 0 THEN <<Sign(n), 0>>
    ELSE LET g == Gcd(Abs(n), Abs(d))
         IN  <<Sign(d) * (n \div g), Abs(d) \div g>>

Num(k) == <<k, 1>>

Zero == Num(0)

NaN == <<0, 0>>

IsFinite(q) == q[2] # 0

IsNaN(q) == q = NaN

Neg(q) == <<-q[1], q[2]>>

Add(a, c) ==
    IF IsNaN(a) \/ IsNaN(c) THEN NaN
    ELSE IF ~IsFinite(a) THEN (IF ~IsFinite(c) /\ c # a THEN NaN ELSE a)
    ELSE IF ~IsFinite(c) THEN c
    ELSE LET g == Gcd(a[2], c[2])
         IN  Rat(a[1] * (c[2] \div g) + c[1] * (a[2] \div g), (a[2] \div g) * c[2])

Sub(a, c) == Add(a, Neg(c))

(* The product of two finite numbers, cancelling before multiplying. *)
MulFinite(a, c) ==
    LET g == Gcd(Abs(a[1]), c[2])
        h == Gcd(Abs(c[1]), a[2])
    IN  Rat((a[1] \div g) * (c[1] \div h), (a[2] \div h) * (c[2] \div g))

Mul(a, c) ==
    IF IsNaN(a) \/ IsNaN(c) THEN NaN
    ELSE IF ~IsFinite(a) \/ ~IsFinite(c) THEN <<Sign(a[1]) * Sign(c[1]), 0>>
    ELSE MulFinite(a, c)

Div(a, c) ==
    IF IsNaN(a) \/ IsNaN(c) THEN NaN
    ELSE IF ~IsFinite(c) THEN (IF IsFinite(a) THEN Zero ELSE NaN)
    ELSE IF ~IsFinite(a) THEN (IF c[1] < 0 THEN Neg(a) ELSE a)
    ELSE IF c[1] = 0 THEN <<Sign(a[1]), 0>>
    ELSE MulFinite(a, <<Sign(c[1]) * c[2], Abs(c[1])>>)

(* n/d < 10^(-k) for n >= 0, d > 0, without leaving the integer range. *)
RECURSIVE BelowPow10(_, _, _)
BelowPow10(n, d, k) ==
    IF k = 0 THEN n < d
    ELSE IF n = 0 THEN TRUE
    ELSE IF n >= (d + 9) \div 10 THEN FALSE
    ELSE BelowPow10(10 * n, d, k - 1)

(* The exponent of the tolerance 1e-10. *)
TolExp == 10

(* ht.sqrt(q).item() < 1e-10: false for nan, for inf and for q < 0. *)
SqrtBelowTol(q) ==
    /\ IsFinite(q)
    /\ q[1] >= 0
    /\ BelowPow10(q[1], q[2], 2 * TolExp)

(***************************************************************************)
(* Vectors are sequences of numbers, matrices sequences of rows.            *)
(***************************************************************************)
RECURSIVE SumSeq(_)
SumSeq(s) == IF s = <<>> THEN Zero ELSE Add(Head(s), SumSeq(Tail(s)))

Dot(u, v) == SumSeq([k \in 1..Len(u) |-> Mul(u[k], v[k])])

MatVec(M, v) == [k \in 1..Len(M) |-> Dot(M[k], v)]

VecAdd(u, v) == [k \in 1..Len(u) |-> Add(u[k], v[k])]

VecSub(u, v) == [k \in 1..Len(u) |-> Sub(u[k], v[k])]

Scale(a, v) == [k \in 1..Len(v) |-> Mul(a, v[k])]

(***************************************************************************)
(* Arguments.  An argument is a record of its Python type, its number of   *)
(* dimensions and its value; a call may be given anything.                 *)
(***************************************************************************)
DNDarray == "DNDarray"

Arg(t, nd, v) == [type |-> t, ndim |-> nd, val |-> v]

Vec(s) == Arg(DNDarray, 1, [k \in 1..Len(s) |-> Num(s[k])])

Mat(rows) ==
    Arg(DNDarray, 2, [k \in 1..Len(rows) |-> [l \in 1..Len(rows[k]) |-> Num(rows[k][l])]])

IdentityEntry(k, l, n) == IF k = l THEN 1 ELSE 0

TwiceEntry(k, l, n) == IF k = l THEN 2 ELSE 0

MinusEntry(k, l, n) == IF k = l THEN -1 ELSE 0

ZeroEntry(k, l, n) == 0

OnesEntry(k, l, n) == 1

SignsEntry(k, l, n) == IF k # l THEN 0 ELSE IF k % 2 = 1 THEN 1 ELSE -1

ReverseEntry(k, l, n) == IF k + l = n + 1 THEN 1 ELSE 0

ProjectEntry(k, l, n) == IF k = l /\ k < n THEN 1 ELSE 0

DiagEntry(k, l, n) == IF k = l THEN k ELSE 0

LaplaceEntry(k, l, n) == IF k = l THEN 2 ELSE IF Abs(k - l) = 1 THEN -1 ELSE 0

UpperEntry(k, l, n) == IF k <= l THEN 1 ELSE 0

SkewEntry(k, l, n) == IF k <= l THEN 1 ELSE -1

Entry(name, k, l, n) ==
    CASE name = "Identity" -> IdentityEntry(k, l, n)
      [] name = "Twice" -> TwiceEntry(k, l, n)
      [] name = "Minus" -> MinusEntry(k, l, n)
      [] name = "Zero" -> ZeroEntry(k, l, n)
      [] name = "Ones" -> OnesEntry(k, l, n)
      [] name = "Signs" -> SignsEntry(k, l, n)
      [] name = "Reverse" -> ReverseEntry(k, l, n)
      [] name = "Project" -> ProjectEntry(k, l, n)
      [] name = "Diag" -> DiagEntry(k, l, n)
      [] name = "Laplace" -> LaplaceEntry(k, l, n)
      [] name = "Upper" -> UpperEntry(k, l, n)
      [] name = "Skew" -> SkewEntry(k, l, n)

Square(n, name) == Mat([k \in 1..n |-> [l \in 1..n |-> Entry(name, k, l, n)]])

Identity(n) == Square(n, "Identity")

(* Matrices of every dimension: positive definite (the identity and its    *)
(* double), negative definite and singular ones.                           *)
PlainMatrices(n) ==
    { Identity(n), Square(n, "Twice"), Square(n, "Minus"), Square(n, "Zero"),
      Square(n, "Ones"), Square(n, "Project") }

(* Matrices on which cg takes several passes with finite values: positive  *)
(* definite ones with distinct eigenvalues, indefinite ones, and ones that *)
(* are not symmetric, on which the loop runs out.  Beyond dimension 2 their exact  *)
(* iterates leave the range of the checker's integers.                     *)
SlowMatrices(n) ==
    IF n \in {1, 2}
      THEN { Square(n, "Diag"), Square(n, "Laplace"), Square(n, "Signs"),
             Square(n, "Reverse"), Square(n, "Upper"), Square(n, "Skew") }
      ELSE {}

Matrices(n) == PlainMatrices(n) \cup SlowMatrices(n)

Zeros(n) == Vec([k \in 1..n |-> 0])

Ones(n) == Vec([k \in 1..n |-> 1])

Ramp(n) == Vec([k \in 1..n |-> k])

Unit(n) == Vec([k \in 1..n |-> IF k = 1 THEN 1 ELSE 0])

Alternating(n) == Vec([k \in 1..n |-> IF k % 2 = 1 THEN 1 ELSE -2])

Vectors(n) == { Zeros(n), Ones(n), Ramp(n), Unit(n), Alternating(n) }

(* Arguments that fail cg's checks: not a DNDarray, or of another rank. *)
BadArgs == { Arg("ndarray", 1, <<>>), Arg(DNDarray, 0, <<>>), Arg(DNDarray, 3, <<>>) }

BadMatrices == BadArgs \cup { Arg(DNDarray, 1, <<>>) }

BadVectors == BadArgs \cup { Arg(DNDarray, 2, <<>>) }

(***************************************************************************)
(* cg(A, b, x0, out=None), solver.py lines 13-65.                           *)
(*                                                                         *)
(* cg.out is the local name out: None, "outbuf" (the caller's buffer       *)
(* object) or "x" (the array the local name x is bound to).  cg.outbuf is  *)
(* the content of the caller's buffer object.  cg.tests records, pass by   *)
(* pass, the outcome of the convergence test of line 53.                   *)
(***************************************************************************)
SpmdIdle == [m |-> 0, split |-> None, whole |-> <<>>, rk |-> <<>>]

(* No call of matmul is in progress. *)
MmIdle == [pc |-> "idle"]

(* No partial dataset exists. *)
DsIdle == [pc |-> "idle"]

(* No call of lanczos with values is in progress. *)
KrIdle == [pc |-> "idle"]

CgIdle ==
    [pc |-> "idle", A |-> None, b |-> None, x0 |-> None, out |-> None, outbuf |-> None,
     r |-> None, p |-> None, rsold |-> None, x |-> None, i |-> None, tests |-> <<>>,
     matmuls |-> 0, ret |-> None, retobj |-> None, err |-> None, msg |-> None]

CgCall(A, b, x0, out, outbuf) ==
    [CgIdle EXCEPT !.pc = "check", !.A = A, !.b = b, !.x0 = x0, !.out = out,
                   !.outbuf = outbuf]

(* A call within the types and ranks cg checks for, of dimension n. *)
CgGoodCalls(n) ==
    { CgCall(A, b, x0, o[1], o[2]) :
        A \in Matrices(n), b \in Vectors(n), x0 \in Vectors(n),
        o \in { <<None, None>>, <<"outbuf", Zeros(n).val>> } }

(* A call with at least one argument that fails a check. *)
CgBadCalls ==
    { CgCall(A, b, x0, None, None) :
        A \in BadMatrices \cup {Identity(1)}, b \in BadVectors \cup {Ones(1)},
        x0 \in BadVectors \cup {Zeros(1)} }
    \ CgGoodCalls(1)

CgInit == cg \in CgBadCalls \cup UNION { CgGoodCalls(n) : n \in 0..MaxN }

(* The checks of lines 35-40 in another order: b before A. *)
CgCheckBFirst(A, b, x0) ==
    IF A.type # DNDarray \/ b.type # DNDarray \/ x0.type # DNDarray
      THEN <<"TypeError", "A, b and x0 need to be of type ht.DNDarray">>
    ELSE IF b.ndim # 1 THEN <<"RuntimeError", "b needs to be a 1D vector">>
    ELSE IF A.ndim # 2 THEN <<"RuntimeError", "A needs to be a 2D matrix">>
    ELSE IF x0.ndim # 1 THEN <<"RuntimeError", "c needs to be a 1D vector">>
    ELSE None

(* Lines 28-40: the first failing check, as <<error, message>>, or None. *)
CgCheck(A, b, x0) ==
    IF A.type # DNDarray \/ b.type # DNDarray \/ x0.type # DNDarray
      THEN <<"TypeError", "A, b and x0 need to be of type ht.DNDarray">>
    ELSE IF A.ndim # 2 THEN <<"RuntimeError", "A needs to be a 2D matrix">>
    ELSE IF b.ndim # 1 THEN <<"RuntimeError", "b needs to be a 1D vector">>
    ELSE IF x0.ndim # 1 THEN <<"RuntimeError", "c needs to be a 1D vector">>
    ELSE None

CgValidate ==
    /\ UNCHANGED <<lz, spmd, mm, ds, kr>>
    /\ cg.pc = "check"
    /\ LET e == CgCheck(cg.A, cg.b, cg.x0)
       IN  cg' = IF e = None THEN [cg EXCEPT !.pc = "init"]
                 ELSE [cg EXCEPT !.pc = "done", !.err = e[1], !.msg = e[2]]

(* Lines 42-45. *)
CgResidual(A, b, x0) == VecSub(b, MatVec(A, x0))

CgSetup ==
    /\ UNCHANGED <<lz, spmd, mm, ds, kr>>
    /\ cg.pc = "init"
    /\ LET r == CgResidual(cg.A.val, cg.b.val, cg.x0.val)
       IN  cg' = [cg EXCEPT !.pc = "loop", !.r = r, !.p = r, !.rsold = Dot(r, r),
                            !.x = cg.x0.val, !.matmuls = 2]

(* A loop that runs one pass too many. *)
CgRangeOneMore(b) == Len(b) + 1

(* Line 47: range(len(b)). *)
CgRange(b) == Len(b)

(* Line 49. *)
CgAlpha(rsold, p, Ap) == Div(rsold, Dot(p, Ap))

(* The update of x with the wrong sign. *)
CgStepXMinus(x, alpha, p) == VecSub(x, Scale(alpha, p))

(* Line 50. *)
CgStepX(x, alpha, p) == VecAdd(x, Scale(alpha, p))

(* Line 51. *)
CgStepR(r, alpha, Ap) == VecSub(r, Scale(alpha, Ap))

(* Line 53. *)
CgConverged(rsnew) == SqrtBelowTol(rsnew)

(* Line 59. *)
CgStepP(r, rsnew, rsold, p) == VecAdd(r, Scale(Div(rsnew, rsold), p))

(* Lines 55-58 and 62-65: out = x rebinds the local name, x is returned. *)
CgReturn(f) ==
    [f EXCEPT !.pc = "done", !.ret = f.x, !.retobj = "x",
              !.out = IF f.out # None THEN "x" ELSE None]

(* Line 47: the loop has a pass left. *)
CgHasPass == cg.pc = "loop" /\ Len(cg.tests) < CgRange(cg.b.val)

(* Line 47: the loop is exhausted. *)
CgNoPass == cg.pc = "loop" /\ Len(cg.tests) >= CgRange(cg.b.val)

(* Lines 47-60: one pass of the loop. *)
CgPass ==
    /\ UNCHANGED <<lz, spmd, mm, ds, kr>>
    /\ CgHasPass
    /\ LET Ap    == MatVec(cg.A.val, cg.p)
           alpha == CgAlpha(cg.rsold, cg.p, Ap)
           x     == CgStepX(cg.x, alpha, cg.p)
           r     == CgStepR(cg.r, alpha, Ap)
           rsnew == Dot(r, r)
           conv  == CgConverged(rsnew)
           f     == [cg EXCEPT !.i = Len(cg.tests), !.x = x, !.r = r,
                               !.tests = Append(cg.tests, conv),
                               !.matmuls = cg.matmuls + 3]
       IN  cg' = IF conv THEN CgReturn(f)
                 ELSE [f EXCEPT !.p = CgStepP(r, rsnew, cg.rsold, cg.p), !.rsold = rsnew]

(* Lines 62-65: the loop is exhausted. *)
CgExhausted ==
    /\ UNCHANGED <<lz, spmd, mm, ds, kr>>
    /\ CgNoPass
    /\ cg' = CgReturn(cg)

(***************************************************************************)
(* lanczos(A, m, v0=None, V_out=None, T_out=None), solver.py lines 68-184, *)
(* as one process runs it.                                                 *)
(*                                                                         *)
(* An array is described by its shape, its split axis and a content: for T *)
(* a function of the index pair, for V the sequence of its columns, each   *)
(* named after the vector stored there.  The values of the dot products    *)
(* (alpha) and norms (beta) are drawn from Alphas and Betas.  lz.calls     *)
(* counts the operations that communicate when an operand is split.        *)
(* lz.v0_arg, lz.V_out_arg and lz.T_out_arg are the caller's objects,      *)
(* lz.v0, lz.V_out and lz.T_out what the local names are bound to.         *)
(***************************************************************************)
MaxM == 3

(* The dimensions of A. *)
LzDims == {2, 3}

(* A split axis: None, or axis 0 or 1 by name. *)
Axis0 == "0"

Axis1 == "1"

Splits == {None, Axis0, Axis1}

(* An optional array that is not given. *)
NoArray == [shape |-> <<>>, split |-> None, content |-> None]

Alphas == {2, 3}

(* A norm: 0 is below the tolerance of line 131. *)
Betas == {0, 1}

NoCalls == [resplit |-> 0, matmul |-> 0, dot |-> 0, norm |-> 0, allreduce |-> 0]

Issued(calls) == calls.resplit + calls.matmul + calls.dot + calls.norm + calls.allreduce

(* The number of processes of the communicator. *)
NProcs == 2

(* The block of indices 1..len that rank r holds: blocks of                *)
(* ceil(len / P) indices, the last ranks holding the remainder or nothing. *)
ChunkSize(len, P) == (len + P - 1) \div P

Owner(x, len, P) == (x - 1) \div ChunkSize(len, P)

Chunk(len, P, r) == { x \in 1..len : Owner(x, len, P) = r }

(* A result that is never split. *)
MmResultUnsplit(a, b) == None

(* test_matmul, ret00.split: not split for operands that are not split;    *)
(* axis 0 when an operand is 1-D; else the split of a, or that of b when a *)
(* is not split.                                                           *)
MmResultSplit(a, b) ==
    IF a.split = None /\ b.split = None THEN None
    ELSE IF a.ndim = 1 \/ b.ndim = 1 THEN Axis0
    ELSE IF a.split # None THEN a.split
    ELSE b.split

(* The length of the local tile of a vector of length len. *)
LzTile(len, split, P, r) ==
    IF split = None THEN len ELSE Cardinality(Chunk(len, P, r))

(* The split of matmul(A, v) for a vector v of the given split. *)
LzProductSplit(A, vsplit) == MmResultSplit(A, [ndim |-> 1, split |-> vsplit])

(* The split of a - b and of a * b for vectors: that of the split operand. *)
LzBinarySplit(asplit, bsplit) == IF asplit # None THEN asplit ELSE bsplit

LzIdle ==
    [pc |-> "idle", A |-> None, m |-> None, v0 |-> NoArray, V_out |-> NoArray,
     T_out |-> NoArray, v0_arg |-> NoArray, V_out_arg |-> NoArray, T_out_arg |-> NoArray,
     n |-> None, T |-> NoArray, V |-> NoArray, w |-> None, alpha |-> None, beta |-> None,
     i |-> None, j |-> None, vr |-> None, vi |-> None, path |-> <<>>,
     V_stores |-> <<>>, T_stores |-> {}, calls |-> NoCalls,
     ret |-> None, err |-> None,
     P |-> None, w_split |-> None, vr_split |-> None, vi_split |-> None]

MatrixArg(t, nd, shape, split) == [type |-> t, ndim |-> nd, shape |-> shape, split |-> split]

LzMatrices ==
    { MatrixArg(DNDarray, 2, <<n, n>>, sp) : n \in LzDims, sp \in Splits }
    \cup { MatrixArg("ndarray", 2, <<2, 2>>, None), MatrixArg(DNDarray, 1, <<2>>, None),
           MatrixArg(DNDarray, 2, <<2, 3>>, None), MatrixArg(DNDarray, 2, <<3, 2>>, Axis0) }

IntArg(k) == [type |-> "int", val |-> k]

LzCounts == { IntArg(k) : k \in 1..MaxM } \cup { [type |-> "str", val |-> "3"] }

VectorArg(len, split) == [shape |-> <<len>>, split |-> split, content |-> "v0"]

LzVectors == {NoArray} \cup { VectorArg(len, sp) : len \in LzDims, sp \in {None, Axis0} }

(* The content of a new n x m array of V's kind: m columns. *)
Columns(m, name) == [k \in 1..m |-> name]

(* The content of a new m x m array of T's kind. *)
Entries(m, value) == [ix \in (0..(m - 1)) \X (0..(m - 1)) |-> value]

(* The caller's buffers for V: none, one of V's shape n x m (not split, or *)
(* split along axis 0), or one with a row too many; filled with zeros.     *)
LzBasisBuffers(n, m) ==
    { NoArray,
      [shape |-> <<n, m>>, split |-> None, content |-> Columns(m, "zeros")],
      [shape |-> <<n, m>>, split |-> Axis0, content |-> Columns(m, "zeros")],
      [shape |-> <<n + 1, m>>, split |-> None, content |-> Columns(m, "zeros")] }

(* The caller's buffers for T: none, one of T's shape m x m, or a larger   *)
(* one; filled with -1.                                                    *)
LzTridiagonalBuffers(m) ==
    { NoArray,
      [shape |-> <<m, m>>, split |-> None, content |-> Entries(m, -1)],
      [shape |-> <<m + 1, m + 1>>, split |-> None, content |-> Entries(m + 1, -1)] }

LzCall(A, m, v0, V_out, T_out) ==
    [LzIdle EXCEPT !.pc = "check", !.A = A, !.m = m, !.v0 = v0, !.V_out = V_out,
                   !.T_out = T_out, !.v0_arg = v0, !.V_out_arg = V_out,
                   !.T_out_arg = T_out]

LzInit ==
    \E A \in LzMatrices, m \in LzCounts, v0 \in LzVectors :
      LET rows == A.shape[1]
          cols == IF m.type = "int" THEN m.val ELSE 1
      IN  \E V_out \in LzBasisBuffers(rows, cols), T_out \in LzTridiagonalBuffers(cols),
             P \in 1..NProcs :
            lz = [LzCall(A, m, v0, V_out, T_out) EXCEPT !.P = P]

(* Lines 98-108: the first failing check, or None. *)
LzCheck(A, m) ==
    IF A.type # DNDarray THEN "TypeError"
    ELSE IF A.ndim # 2 THEN "RuntimeError"
    ELSE IF m.type \notin {"int", "float"} THEN "TypeError"
    ELSE IF A.shape[1] # A.shape[2] THEN "TypeError"
    ELSE None

LzValidate ==
    /\ UNCHANGED <<cg, spmd, mm, ds, kr>>
    /\ lz.pc = "check"
    /\ LET e == LzCheck(lz.A, lz.m)
       IN  lz' = IF e = None THEN [lz EXCEPT !.pc = "alloc", !.n = lz.A.shape[1]]
                 ELSE [lz EXCEPT !.pc = "done", !.err = e]

(* A V that takes the split of A, whatever it is. *)
LzBasisSplitOfA(Asplit) == Asplit

(* Lines 110-114: V is split along axis 0 when A is, else not split. *)
LzBasisSplit(Asplit) == IF Asplit = Axis0 THEN Axis0 ELSE None

(* Lines 109-114. *)
LzAllocate ==
    /\ UNCHANGED <<cg, spmd, mm, ds, kr>>
    /\ lz.pc = "alloc"
    /\ LET m == lz.m.val
       IN  lz' = [lz EXCEPT
                    !.pc = "start",
                    !.T = [shape |-> <<m, m>>, split |-> None,
                           content |-> Entries(m, 0)],
                    !.V = [shape |-> <<lz.n, m>>,
                           split |-> LzBasisSplit(lz.A.split),
                           content |-> Columns(m, "ones")],
                    !.V_stores = [k \in 1..m |-> 0]]

(* Lines 116-121: a random unit vector, or the caller's v0 brought to V's  *)
(* split in place.                                                         *)
LzStartVector ==
    /\ UNCHANGED <<cg, spmd, mm, ds, kr>>
    /\ lz.pc = "start"
    /\ IF lz.v0 = NoArray
         THEN lz' = [lz EXCEPT !.pc = "first",
                               !.v0 = [shape |-> <<lz.n>>, split |-> lz.V.split,
                                       content |-> "random"],
                               !.calls.norm = @ + 1]
       ELSE IF lz.v0.split # lz.V.split
         THEN lz' = [lz EXCEPT !.pc = "first",
                               !.v0.split = lz.V.split,
                               !.v0_arg.split = lz.V.split,
                               !.calls.resplit = @ + 1]
       ELSE lz' = [lz EXCEPT !.pc = "first"]

(* ht.matmul raises ValueError when the inner dimensions differ. *)
MatmulFits(a, v) == a.shape[2] = v.shape[1]

(* The stores of iteration i with alpha stored below the diagonal. *)
LzStoreAlphaBelow(f, i, alpha, beta, vi) ==
    LET T == IF i = 0 THEN [f.T.content EXCEPT ![<<0, 0>>] = alpha]
             ELSE [f.T.content EXCEPT ![<<i - 1, i>>] = beta,
                                      ![<<i, i - 1>>] = alpha,
                                      ![<<i, i>>] = alpha]
        S == IF i = 0 THEN {<<0, 0>>} ELSE {<<i - 1, i>>, <<i, i - 1>>, <<i, i>>}
    IN  [f EXCEPT !.T.content = T,
                  !.T_stores = @ \cup S,
                  !.V.content[i + 1] = vi,
                  !.V_stores[i + 1] = @ + 1]

(* Lines 127-128 and 166-169: the stores of iteration i. *)
LzStore(f, i, alpha, beta, vi) ==
    LET T == IF i = 0 THEN [f.T.content EXCEPT ![<<0, 0>>] = alpha]
             ELSE [f.T.content EXCEPT ![<<i - 1, i>>] = beta,
                                      ![<<i, i - 1>>] = beta,
                                      ![<<i, i>>] = alpha]
        S == IF i = 0 THEN {<<0, 0>>} ELSE {<<i - 1, i>>, <<i, i - 1>>, <<i, i>>}
    IN  [f EXCEPT !.T.content = T,
                  !.T_stores = @ \cup S,
                  !.V.content[i + 1] = vi,
                  !.V_stores[i + 1] = @ + 1]

(* Lines 124-126 and 161-164: the split of w = A v - alpha v - beta V[:, i - 1]. *)
LzResidualSplit(A, vsplit, Vsplit) ==
    LzBinarySplit(LzBinarySplit(LzProductSplit(A, vsplit), vsplit), Vsplit)

(* Lines 124-128: iteration 0. *)
LzFirst ==
    /\ UNCHANGED <<cg, spmd, mm, ds, kr>>
    /\ lz.pc = "first"
    /\ IF ~MatmulFits(lz.A, lz.v0)
         THEN lz' = [lz EXCEPT !.pc = "done", !.err = "ValueError"]
       ELSE \E alpha \in Alphas :
              lz' = [LzStore(lz, 0, alpha, 0, lz.v0.content) EXCEPT
                       !.pc = "head", !.i = 1, !.alpha = alpha, !.w = "w",
                       !.w_split = LzResidualSplit(lz.A, lz.v0.split, lz.V.split),
                       !.calls.matmul = @ + 1, !.calls.dot = @ + 1]

(* A loop that ends one iteration early. *)
LzLastEarly(m) == m - 2

(* Line 129: range(1, int(m)). *)
LzLast(m) == m - 1

(* Line 131: abs(beta) < 1e-10. *)
LzBreakdown(beta) == BelowPow10(Abs(beta), 1, TolExp)

(* Lines 129-134 and 146: the norm of w decides the path of iteration i. *)
LzHead ==
    /\ UNCHANGED <<cg, spmd, mm, ds, kr>>
    /\ lz.pc = "head"
    /\ lz.i <= LzLast(lz.m.val)
    /\ \E beta \in Betas :
         lz' = [lz EXCEPT !.pc = "orthogonalize", !.beta = beta, !.j = 0,
                          !.vr = IF LzBreakdown(beta) THEN "random" ELSE "w",
                          !.vr_split = IF LzBreakdown(beta) THEN lz.V.split
                                       ELSE lz.w_split,
                          !.path = Append(@, IF LzBreakdown(beta) THEN "breakdown"
                                             ELSE "normal"),
                          !.calls.norm = @ + 1]

(* A loop that orthogonalizes only the random vector of a breakdown. *)
LzColumnsOnBreakdown(i, vr) == IF vr = "random" THEN i ELSE 0

(* Lines 136 and 151: for j in range(i), whatever vr is. *)
LzColumns(i, vr) == i

(* Lines 138 and 153: torch.dot takes two tensors of the same length. *)
LzTilesFit(f) ==
    \A r \in 0..(f.P - 1) :
      LzTile(f.n, f.vr_split, f.P, r) = LzTile(f.n, f.V.split, f.P, r)

(* Lines 136-142 and 151-157: vr is orthogonalized against column j. *)
LzGramSchmidt ==
    /\ UNCHANGED <<cg, spmd, mm, ds, kr>>
    /\ lz.pc = "orthogonalize"
    /\ lz.j < LzColumns(lz.i, lz.vr)
    /\ lz' = IF LzTilesFit(lz)
               THEN [lz EXCEPT !.j = @ + 1, !.calls.allreduce = @ + 2]
               ELSE [lz EXCEPT !.pc = "done", !.err = "RuntimeError"]

(* Lines 144 and 159: vi = vr / ht.norm(vr). *)
LzNormalize ==
    /\ UNCHANGED <<cg, spmd, mm, ds, kr>>
    /\ lz.pc = "orthogonalize"
    /\ lz.j >= LzColumns(lz.i, lz.vr)
    /\ lz' = [lz EXCEPT !.pc = "advance", !.vi = lz.vr, !.vi_split = lz.vr_split,
                        !.calls.norm = @ + 1]

(* Lines 161-169. *)
LzAdvance ==
    /\ UNCHANGED <<cg, spmd, mm, ds, kr>>
    /\ lz.pc = "advance"
    /\ \E alpha \in Alphas :
         lz' = [LzStore(lz, lz.i, alpha, lz.beta, lz.vi) EXCEPT
                  !.pc = "head", !.i = @ + 1, !.alpha = alpha, !.w = "w",
                  !.w_split = LzResidualSplit(lz.A, lz.vi_split, lz.V.split),
                  !.calls.matmul = @ + 1, !.calls.dot = @ + 1]

(* V returned as it is. *)
LzGatherSkipped(V) == V

(* Lines 171-172. *)
LzGather(V) == IF V.split # None THEN [V EXCEPT !.split = None] ELSE V

LzFinish ==
    /\ UNCHANGED <<cg, spmd, mm, ds, kr>>
    /\ lz.pc = "head"
    /\ lz.i > LzLast(lz.m.val)
    /\ lz' = [lz EXCEPT !.pc = "return", !.V = LzGather(lz.V),
                        !.calls.resplit = @ + (IF lz.V.split # None THEN 1 ELSE 0)]

(* copy(): a new array with the shape, split and content of the original. *)
Copy(a) == a

(* Lines 174-184: T_out = T.copy() and V_out = V.copy() rebind the local   *)
(* names; the caller's objects are not written.                            *)
LzReturn ==
    /\ UNCHANGED <<cg, spmd, mm, ds, kr>>
    /\ lz.pc = "return"
    /\ LET T_out == IF lz.T_out # NoArray THEN Copy(lz.T) ELSE NoArray
           V_out == IF lz.V_out # NoArray THEN Copy(lz.V) ELSE NoArray
       IN  lz' = [lz EXCEPT !.pc = "done", !.T_out = T_out, !.V_out = V_out,
                            !.ret = <<IF V_out # NoArray THEN V_out ELSE lz.V,
                                      IF T_out # NoArray THEN T_out ELSE lz.T>>]

InitLanczos == LzInit /\ cg = CgIdle /\ spmd = SpmdIdle /\ mm = MmIdle /\ ds = DsIdle /\ kr = KrIdle

NextLanczos ==
    \/ LzValidate \/ LzAllocate \/ LzStartVector \/ LzFirst \/ LzHead
    \/ LzGramSchmidt \/ LzNormalize \/ LzAdvance \/ LzFinish \/ LzReturn

SpecLanczos == InitLanczos /\ [][NextLanczos]_vars

(***************************************************************************)
(* The loop of lanczos, lines 129-169, as the processes of the             *)
(* communicator run it side by side.                                       *)
(*                                                                         *)
(* Each rank runs the same program.  A global operation on a split array   *)
(* (ht.norm, ht.matmul, ht.dot) and each comm.Allreduce is a collective: a *)
(* rank enters it with its local value and leaves it, with the sum of the  *)
(* values of all ranks, once every rank has entered the same collective.   *)
(* On an array that is not split every rank holds the same copy and        *)
(* computes the same value by itself.  spmd.rk[r].ops lists the            *)
(* collectives rank r has entered and spmd.rk[r].vals what it brought.     *)
(***************************************************************************)
Ranks == 0..(NProcs - 1)

(* The squared norm of w, or of the local part of w that a rank holds. *)
Parts == {0, 1}

SpmdRank ==
    [pc |-> "norm_w", waiting |-> FALSE, i |-> 1, j |-> 0, beta |-> 0, path |-> <<>>,
     ops |-> <<>>, vals |-> <<>>]

SpmdInit ==
    \E m \in 1..MaxM, sp \in Splits :
      spmd = [m |-> m, split |-> LzBasisSplit(sp), whole |-> <<>>,
              rk |-> [r \in Ranks |-> IF m > 1 THEN SpmdRank
                                      ELSE [SpmdRank EXCEPT !.pc = "done"]]]

(* The operation a rank is at. *)
SpmdOp(pc) ==
    CASE pc = "norm_w" -> "norm"
      [] pc = "gs_a" -> "Allreduce"
      [] pc = "gs_b" -> "Allreduce"
      [] pc = "norm_vr" -> "norm"
      [] pc = "matmul" -> "matmul"
      [] pc = "dot" -> "dot"

(* Lines 140-141 and 155-156 are collectives whatever the split; the       *)
(* global operations are when their operand is split.                      *)
SpmdCollective(pc, split) == pc \in {"gs_a", "gs_b"} \/ split # None

RECURSIVE SumOver(_, _)
SumOver(f, S) ==
    IF S = {} THEN 0
    ELSE LET r == CHOOSE x \in S : TRUE IN f[r] + SumOver(f, S \ {r})

(* What a rank decides on without the reduction: its own part. *)
SpmdOwnPart(vals, r) == vals[r]

(* The result of a reduction with op SUM: the sum of the ranks' values. *)
SpmdAllreduce(vals, r) == SumOver(vals, Ranks)

(* Where a rank goes after the operation at pc, and what it has then. *)
SpmdAfter(f, value, m) ==
    CASE f.pc = "norm_w" ->
           [f EXCEPT !.pc = "gs_a", !.j = 0, !.beta = value,
                     !.path = Append(@, IF LzBreakdown(value) THEN "breakdown"
                                        ELSE "normal")]
      [] f.pc = "gs_a" -> [f EXCEPT !.pc = "gs_b"]
      [] f.pc = "gs_b" ->
           [f EXCEPT !.j = @ + 1, !.pc = IF f.j + 1 < f.i THEN "gs_a" ELSE "norm_vr"]
      [] f.pc = "norm_vr" -> [f EXCEPT !.pc = "matmul"]
      [] f.pc = "matmul" -> [f EXCEPT !.pc = "dot"]
      [] f.pc = "dot" ->
           [f EXCEPT !.i = @ + 1, !.pc = IF f.i + 1 <= LzLast(m) THEN "norm_w" ELSE "done"]

(* The ranks that have entered their k-th collective, all the same one. *)
SpmdAllIn(k) ==
    \A q \in Ranks :
      /\ Len(spmd.rk[q].ops) >= k
      /\ spmd.rk[q].ops[k] = spmd.rk[CHOOSE x \in Ranks : TRUE].ops[k]

(* A rank enters a collective with its local value: for the norm of w the  *)
(* squared norm of its part of w, which no other rank knows.               *)
SpmdEnter(r) ==
    /\ UNCHANGED <<cg, lz, mm, ds, kr>>
    /\ LET f == spmd.rk[r]
       IN  /\ f.pc # "done" /\ ~f.waiting
           /\ SpmdCollective(f.pc, spmd.split)
           /\ \E part \in Parts :
                /\ f.pc # "norm_w" => part = 0
                /\ spmd' = [spmd EXCEPT
                              !.rk[r] = [f EXCEPT !.waiting = TRUE,
                                                  !.ops = Append(@, SpmdOp(f.pc)),
                                                  !.vals = Append(@, part)]]

(* A rank leaves the collective it is in once all ranks have entered it. *)
SpmdLeave(r) ==
    /\ UNCHANGED <<cg, lz, mm, ds, kr>>
    /\ LET f == spmd.rk[r]
           k == Len(f.ops)
       IN  /\ f.waiting
           /\ SpmdAllIn(k)
           /\ spmd' = [spmd EXCEPT
                         !.rk[r] = SpmdAfter([f EXCEPT !.waiting = FALSE],
                                             SpmdAllreduce([q \in Ranks |-> spmd.rk[q].vals[k]], r),
                                             spmd.m)]

(* A rank computes on arrays that are not split: every rank holds the same *)
(* w, so the first rank to reach iteration i fixes the norm all ranks find. *)
SpmdLocal(r) ==
    /\ UNCHANGED <<cg, lz, mm, ds, kr>>
    /\ LET f == spmd.rk[r]
       IN  /\ f.pc # "done" /\ ~f.waiting
           /\ ~SpmdCollective(f.pc, spmd.split)
           /\ IF f.pc = "norm_w" /\ Len(spmd.whole) < f.i
                THEN \E value \in Parts :
                       spmd' = [spmd EXCEPT !.whole = Append(@, value),
                                            !.rk[r] = SpmdAfter(f, value, spmd.m)]
              ELSE spmd' = [spmd EXCEPT
                              !.rk[r] = SpmdAfter(f, IF f.pc = "norm_w" THEN spmd.whole[f.i]
                                                     ELSE 0, spmd.m)]

InitSPMD == SpmdInit /\ cg = CgIdle /\ lz = LzIdle /\ mm = MmIdle /\ ds = DsIdle /\ kr = KrIdle

NextSPMD == \E r \in Ranks : SpmdEnter(r) \/ SpmdLeave(r) \/ SpmdLocal(r)

SpecSPMD == InitSPMD /\ [][NextSPMD]_vars

InitCG == CgInit /\ lz = LzIdle /\ spmd = SpmdIdle /\ mm = MmIdle /\ ds = DsIdle /\ kr = KrIdle

NextCG == CgValidate \/ CgSetup \/ CgPass \/ CgExhausted

SpecCG == InitCG /\ [][NextCG]_vars

(***************************************************************************)
(* Properties of cg.                                                        *)
(***************************************************************************)
CgReturned == cg.pc = "done" /\ cg.err = None

CgInLoop == cg.pc = "loop" \/ CgReturned

NoTestBefore(k) == \A l \in 1..(k - 1) : ~cg.tests[l]

(* C1: cg ends after at most len(b) passes of its loop.  It returns x at   *)
(* the first pass whose residual r.r passes the test sqrt(r.r) < 1e-10; if *)
(* no pass does it returns the x of pass len(b), and no error is raised    *)
(* (for len(b) = 0 it returns x0 after no pass).  Until it has returned, a *)
(* step is always possible.                                                *)
C1_CgEndsWithinLenB ==
    /\ cg.pc # "done" => cg.pc = "check" \/ cg.pc = "init" \/ CgHasPass \/ CgNoPass
    /\ CgInLoop =>
         LET n      == Len(cg.b.val)
             passes == Len(cg.tests)
         IN  /\ passes <= n
             /\ cg.err = None
             /\ NoTestBefore(passes)
             /\ cg.pc = "loop" => \A l \in 1..passes : ~cg.tests[l]
             /\ CgReturned =>
                  /\ cg.ret = cg.x
                  /\ n = 0 => passes = 0 /\ cg.ret = cg.x0.val
                  /\ passes > 0 =>
                       /\ cg.i = passes - 1
                       /\ cg.tests[passes] <=> SqrtBelowTol(Dot(cg.r, cg.r))
                       /\ ~cg.tests[passes] => passes = n

(* A call that ran out of passes with finite values and none converged. *)
C1_Witness ==
    /\ CgReturned
    /\ Len(cg.b.val) = 2
    /\ Len(cg.tests) = 2
    /\ ~cg.tests[1] /\ ~cg.tests[2]
    /\ IsFinite(cg.rsold)
    /\ \A k \in 1..2 : IsFinite(cg.ret[k])

CgRankFails == cg.A.ndim # 2 \/ cg.b.ndim # 1 \/ cg.x0.ndim # 1

CgTypesPass == cg.A.type = DNDarray /\ cg.b.type = DNDarray /\ cg.x0.type = DNDarray

(* C9, as claimed: cg fails with an error of kind DimensionError when A is *)
(* not 2-D, b is not 1-D or x0 is not 1-D.                                 *)
C9_CgDimensionError ==
    cg.pc = "done" /\ CgTypesPass /\ CgRankFails => cg.err = "DimensionError"

(* C9, amended: the error raised for a wrong number of dimensions is a     *)
(* RuntimeError; the checks run after the type check (a call with a        *)
(* non-array argument fails with TypeError whatever the ranks), in the     *)
(* order A, b, x0, and the message names the first argument that fails.    *)
C9_CgRankErrors ==
    cg.pc = "done" =>
      /\ ~CgTypesPass => cg.err = "TypeError"
      /\ CgTypesPass /\ CgRankFails =>
           /\ cg.err = "RuntimeError"
           /\ cg.msg = IF cg.A.ndim # 2 THEN "A needs to be a 2D matrix"
                       ELSE IF cg.b.ndim # 1 THEN "b needs to be a 1D vector"
                       ELSE "c needs to be a 1D vector"
           /\ cg.ret = None /\ cg.tests = <<>> /\ cg.matmuls = 0
      /\ CgTypesPass /\ ~CgRankFails => cg.err = None

(* A and b both have the wrong rank: the error is the one about A. *)
C9_Witness ==
    /\ cg.pc = "done"
    /\ CgTypesPass
    /\ cg.A.ndim # 2 /\ cg.b.ndim # 1
    /\ cg.err = "RuntimeError"
    /\ cg.msg = "A needs to be a 2D matrix"

CgIdentityCase ==
    /\ CgTypesPass /\ ~CgRankFails
    /\ Len(cg.b.val) >= 1
    /\ cg.A = Identity(Len(cg.b.val))
    /\ cg.x0 = Zeros(Len(cg.b.val))
    /\ cg.b # Zeros(Len(cg.b.val))

(* C10: for A the identity, x0 the zero vector and b not zero, cg          *)
(* converges in its first pass (i = 0) and returns x equal to b.           *)
C10_CgIdentityOnePass ==
    CgIdentityCase /\ cg.pc = "done" =>
      /\ cg.err = None
      /\ Len(cg.tests) = 1 /\ cg.tests[1] /\ cg.i = 0
      /\ cg.ret = cg.b.val

(* The stated shape of case: the identity, b = [1, 2, ..., n], x0 = 0. *)
C10_Witness ==
    /\ CgIdentityCase /\ cg.pc = "done"
    /\ Len(cg.b.val) >= 2
    /\ cg.b = Ramp(Len(cg.b.val))
    /\ cg.ret = cg.b.val

(***************************************************************************)
(* Properties of lanczos.                                                   *)
(***************************************************************************)
LzReturned == lz.pc = "done" /\ lz.err = None

LzRunning == lz.pc \in {"head", "orthogonalize", "advance", "return"} \/ LzReturned

(* C3: for every m >= 1 and every sequence of breakdown and normal         *)
(* iterations, lanczos runs exactly m - 1 iterations of its loop and       *)
(* stores each column V[:, i], i = 0..m-1, exactly once; a breakdown       *)
(* neither skips a column nor ends the loop early; V is n x m, T is m x m. *)
C3_LzEveryColumnOnce ==
    LzRunning =>
      LET m == lz.m.val
      IN  /\ lz.i \in 1..m
          /\ Len(lz.path) = (IF lz.pc \in {"orthogonalize", "advance"} THEN lz.i ELSE lz.i - 1)
          /\ \A k \in 1..m :
               /\ lz.V_stores[k] = (IF k <= lz.i THEN 1 ELSE 0)
               /\ (lz.V.content[k] = "ones") = (k > lz.i)
               /\ (k > 1 /\ k <= lz.i) =>
                    lz.V.content[k] = (IF lz.path[k - 1] = "breakdown" THEN "random" ELSE "w")
          /\ lz.pc \in {"return", "done"} => lz.i = m /\ Len(lz.path) = m - 1
          /\ LzReturned =>
               /\ lz.ret[1].shape = <<lz.n, m>> /\ Len(lz.ret[1].content) = m
               /\ lz.ret[2].shape = <<m, m>>

(* A call with m = 3 whose first iteration broke down and whose second did not. *)
C3_Witness ==
    /\ LzReturned
    /\ lz.m.val = 3
    /\ lz.path = <<"breakdown", "normal">>
    /\ lz.ret[1].content[2] = "random" /\ lz.ret[1].content[3] = "w"

Tridiagonal(ix) == Abs(ix[1] - ix[2]) <= 1

(* C4: T is symmetric and tridiagonal between any two steps of a call: the *)
(* only entries stored are T[i,i] = alpha_i and T[i-1,i] = T[i,i-1] =      *)
(* beta_i, every entry off the three diagonals stays zero, and at return   *)
(* all m diagonal entries and all m - 1 pairs beside it have been stored.  *)
(* (The three stores of lines 166-168 are one step.)                       *)
C4_LzSymmetricTridiagonal ==
    (lz.pc \in {"start", "first"} \/ LzRunning) =>
      LET m  == lz.m.val
          T  == lz.T.content
          ix == (0..(m - 1)) \X (0..(m - 1))
          i  == IF lz.pc \in {"start", "first"} THEN 0 ELSE lz.i
      IN  /\ DOMAIN T = ix
          /\ \A e \in ix :
               /\ T[e] = T[<<e[2], e[1]>>]
               /\ ~Tridiagonal(e) => T[e] = 0
               /\ (e \in lz.T_stores) = (Tridiagonal(e) /\ e[1] < i /\ e[2] < i)
               /\ e \notin lz.T_stores => T[e] = 0
          /\ lz.pc = "head" =>
               /\ T[<<lz.i - 1, lz.i - 1>>] = lz.alpha
               /\ lz.i > 1 => /\ T[<<lz.i - 2, lz.i - 1>>] = lz.beta
                              /\ T[<<lz.i - 1, lz.i - 2>>] = lz.beta
          /\ LzReturned => i = m /\ lz.ret[2].content = T

(* A returned 3 x 3 T with two different entries beside the diagonal. *)
C4_Witness ==
    /\ LzReturned
    /\ lz.m.val = 3
    /\ lz.ret[2].content[<<0, 1>>] = 1 /\ lz.ret[2].content[<<1, 0>>] = 1
    /\ lz.ret[2].content[<<1, 2>>] = 0
    /\ lz.ret[2].content[<<1, 1>>] = 3 /\ lz.ret[2].content[<<2, 2>>] = 2

(* C5: whatever the split axis of A and whichever of V_out and T_out are   *)
(* given, the V that lanczos returns is not split, though V is split along *)
(* axis 0 during the iteration when A is.                                  *)
C5_LzBasisUnsplit ==
    /\ lz.pc \in {"start", "first", "head", "orthogonalize", "advance"} =>
         lz.V.split = (IF lz.A.split = Axis0 THEN Axis0 ELSE None)
    /\ lz.pc = "return" => lz.V.split = None
    /\ LzReturned => lz.ret[1].split = None

(* A split along axis 0, V_out given: the V returned is not split. *)
C5_Witness ==
    /\ LzReturned
    /\ lz.A.split = Axis0
    /\ lz.V_out_arg # NoArray /\ lz.T_out_arg = NoArray
    /\ lz.calls.resplit > 0
    /\ lz.ret[1].split = None

(* C6: when the caller gives cg an out buffer, after the call the buffer   *)
(* holds the values of the returned result.                                *)
C6_CgOutWritten == (CgReturned /\ cg.out # None) => cg.outbuf = cg.ret

LzBuffersFit ==
    /\ lz.V_out_arg # NoArray =>
         lz.V_out_arg.shape = <<lz.A.shape[1], lz.m.val>> /\ lz.V_out_arg.split = None
    /\ lz.T_out_arg # NoArray => lz.T_out_arg.shape = <<lz.m.val, lz.m.val>>

(* C7: a call of lanczos with a V_out that is not n x m or is split, or    *)
(* with a T_out that is not m x m, raises ValueError (so a call that       *)
(* returns had fitting buffers) and leaves the buffer as it was.           *)
C7_LzBadBufferRaises ==
    /\ LzReturned => LzBuffersFit
    /\ (lz.pc = "done" /\ lz.err = "ValueError") =>
         lz.V_out_arg \in LzBasisBuffers(lz.A.shape[1], lz.m.val)
           /\ lz.T_out_arg \in LzTridiagonalBuffers(lz.m.val)

(* C8: every argument error of lanczos is raised before the call has       *)
(* issued any communication (resplit, matmul, dot, norm, all-reduce).      *)
C8_LzErrorsBeforeCalls == (lz.pc = "done" /\ lz.err # None) => Issued(lz.calls) = 0

(***************************************************************************)
(* Properties of lanczos run by several processes.                         *)
(***************************************************************************)
Min(a, c) == IF a < c THEN a ELSE c

SamePrefix(s, t) == \A k \in 1..Min(Len(s), Len(t)) : s[k] = t[k]

(* C2: in every iteration all processes take the same path (breakdown when *)
(* the reduced norm beta is below 1e-10, normal otherwise), so they enter  *)
(* the same collectives in the same order, and no process waits in a       *)
(* collective that another process never enters.                           *)
C2_SpmdSamePath ==
    \A r, q \in Ranks :
      LET f == spmd.rk[r]
          g == spmd.rk[q]
      IN  /\ SamePrefix(f.path, g.path)
          /\ SamePrefix(f.ops, g.ops)
          /\ (f.i = g.i /\ Len(f.path) = f.i /\ Len(g.path) = g.i) => f.beta = g.beta
          /\ (f.waiting /\ g.pc = "done") => Len(g.ops) >= Len(f.ops)
          /\ (f.pc = "done" /\ g.pc = "done") => f.ops = g.ops /\ f.path = g.path

(* Two ranks whose parts of w differed (one part is zero, the sum is not)  *)
(* took the normal path, and later, with both parts zero, broke down.      *)
C2_Witness ==
    /\ \A r \in Ranks : spmd.rk[r].pc = "done" /\ spmd.rk[r].path = <<"normal", "breakdown">>
    /\ spmd.split = Axis0
    /\ spmd.rk[0].vals[1] = 0 /\ spmd.rk[1].vals[1] = 1

(***************************************************************************)
(* The residual of the solution cg returns.                                 *)
(***************************************************************************)
Symmetric(M) == \A k, l \in 1..Len(M) : M[k][l] = M[l][k]

AbsNum(q) == IF q[1] < 0 THEN Neg(q) ELSE q

Less(a, c) == Sub(a, c)[1] < 0

OffDiagonal(M, k) ==
    SumSeq([l \in 1..Len(M) |-> IF l = k THEN Zero ELSE AbsNum(M[k][l])])

(* Symmetric with a positive, strictly dominant diagonal: such a matrix is *)
(* positive definite.                                                      *)
DominantSymmetric(M) ==
    /\ Symmetric(M)
    /\ \A k \in 1..Len(M) : Less(OffDiagonal(M, k), M[k][k])

CgSpdCase ==
    /\ CgTypesPass /\ ~CgRankFails
    /\ DominantSymmetric(cg.A.val)

(* norm(v) < 1e-9. *)
NormBelow9(v) ==
    LET q == Dot(v, v)
    IN  IsFinite(q) /\ q[1] >= 0 /\ BelowPow10(q[1], q[2], 18)

(* C11: for a symmetric positive definite A, and b and x0 of its length,   *)
(* the x that cg returns has norm(A x - b) < 1e-9.                         *)
C11_CgResidualSmall ==
    (CgSpdCase /\ CgReturned) => NormBelow9(VecSub(MatVec(cg.A.val, cg.ret), cg.b.val))

(***************************************************************************)
(* matmul(a, b, allow_resplit=False) as several processes run it.  Its     *)
(* code is not part of the sources at hand: the operands, the reference    *)
(* product, the errors and the split of the result are those of            *)
(* test_basics.py (test_matmul), the algorithm is the one the              *)
(* specification describes for each pair of splits.                        *)
(*                                                                         *)
(* An operand is its number of dimensions, its shape, its split axis and   *)
(* its global values as a matrix (a 1-D left operand as one row, a 1-D     *)
(* right operand as one column).  mm.acc[r] is the result buffer of rank   *)
(* r, mm.step[r] the number of local products rank r has accumulated.      *)
(***************************************************************************)
MaxDim == 3

Dims == 1..MaxDim

(* test_matmul: a = ones((n, m)); a[0] = arange(1, m + 1);                 *)
(* a[:, -1] = arange(1, n + 1).                                            *)
TestA(n, m) == [i \in 1..n |-> [l \in 1..m |-> IF l = m THEN i ELSE IF i = 1 THEN l ELSE 1]]

(* test_matmul: b = ones((j, k)); b[0] = arange(1, k + 1);                 *)
(* b[:, 0] = arange(1, j + 1).                                             *)
TestB(j, k) == [l \in 1..j |-> [c \in 1..k |-> IF c = 1 THEN l ELSE IF l = 1 THEN c ELSE 1]]

Operand(nd, shape, split, val) == [ndim |-> nd, shape |-> shape, split |-> split, val |-> val]

LeftOperands ==
    { Operand(2, <<n, m>>, sp, TestA(n, m)) : n \in Dims, m \in Dims, sp \in Splits }
    \cup { Operand(1, <<m>>, sp, <<[l \in 1..m |-> 1]>>) : m \in Dims, sp \in {None, Axis0} }
    \cup { Operand(3, <<3, 3, 3>>, None, <<>>) }

RightOperands ==
    { Operand(2, <<j, k>>, sp, TestB(j, k)) : j \in Dims, k \in Dims, sp \in Splits }
    \cup { Operand(1, <<j>>, sp, [l \in 1..j |-> <<1>>]) : j \in Dims, sp \in {None, Axis0} }
    \cup { Operand(3, <<3, 3, 3>>, None, <<>>) }

MmCall(a, b, flag, P) ==
    [pc |-> "check", a_arg |-> a, b_arg |-> b, a |-> a, b |-> b, allow_resplit |-> flag,
     P |-> P, sa |-> None, sb |-> None, gather |-> FALSE, acc |-> <<>>, step |-> <<>>,
     reduced |-> FALSE, ret |-> None, err |-> None]

MmInit ==
    \E a \in LeftOperands, b \in RightOperands, flag \in BOOLEAN, P \in 1..NProcs :
      /\ ~(a.ndim = 1 /\ b.ndim = 1)
      /\ mm = MmCall(a, b, flag, P)

MmRanks(f) == 0..(f.P - 1)

(* The inner dimensions agree: a.shape[-1] == b.shape[0]. *)
MmFits(a, b) == a.shape[Len(a.shape)] = b.shape[1]

(* A mismatch reported as cg reports its errors. *)
MmCheckRuntime(a, b) ==
    IF a.ndim > 2 \/ b.ndim > 2 THEN "NotImplementedError"
    ELSE IF ~MmFits(a, b) THEN "RuntimeError"
    ELSE None

(* The error of a call, or None. *)
MmCheck(a, b) ==
    IF a.ndim > 2 \/ b.ndim > 2 THEN "NotImplementedError"
    ELSE IF ~MmFits(a, b) THEN "ValueError"
    ELSE None

MmValidate ==
    /\ UNCHANGED <<cg, lz, spmd, ds, kr>>
    /\ mm.pc = "check"
    /\ LET e == MmCheck(mm.a, mm.b)
       IN  mm' = IF e = None THEN [mm EXCEPT !.pc = "plan"]
                 ELSE [mm EXCEPT !.pc = "done", !.err = e]

(* The split of an operand seen as a matrix: a split 1-D left operand is   *)
(* split along the contracted dimension, which is axis 1 of its row.       *)
LeftSplit(a) == IF a.ndim = 1 /\ a.split = Axis0 THEN Axis1 ELSE a.split

RightSplit(b) == b.split

(* A resplit of a whatever the flag. *)
MmResplitsAlways(f) ==
    f.a.ndim = 2 /\ f.b.ndim = 2 /\ f.a.split = None /\ f.b.split = None

(* allow_resplit acts on two matrices that are both not split: a is        *)
(* resplit to axis 0 (test_matmul: a.split == 0 after the call).           *)
MmResplits(f) ==
    f.allow_resplit /\ f.a.ndim = 2 /\ f.b.ndim = 2 /\ f.a.split = None /\ f.b.split = None

MmRowCount(f) == Len(f.a.val)

MmInnerCount(f) == Len(f.b.val)

MmColCount(f) == Len(f.b.val[1])

MmZeros(f) == [i \in 1..MmRowCount(f) |-> [j \in 1..MmColCount(f) |-> 0]]

MmPlan ==
    /\ UNCHANGED <<cg, lz, spmd, ds, kr>>
    /\ mm.pc = "plan"
    /\ LET g == MmResplits(mm)
       IN  mm' = [mm EXCEPT !.pc = "run",
                            !.a.split = IF g THEN Axis0 ELSE mm.a.split,
                            !.sa = IF g THEN Axis0 ELSE LeftSplit(mm.a),
                            !.sb = RightSplit(mm.b),
                            !.gather = g,
                            !.acc = [r \in MmRanks(mm) |-> MmZeros(mm)],
                            !.step = [r \in MmRanks(mm) |-> 0]]

(* A ring that leaves out its last exchange. *)
MmRingShort(P) == P - 1

(* The exchanges of a ring: every rank meets the block of every rank. *)
MmRing(P) == P

(* Both operands are split and not both along the contracted dimension:    *)
(* the blocks of one operand travel around the ring.                       *)
MmIsRing(f) == f.sa # None /\ f.sb # None /\ ~(f.sa = Axis1 /\ f.sb = Axis0)

MmSteps(f) == IF MmIsRing(f) THEN MmRing(f.P) ELSE 1

(* The partial products of the ranks are summed by an all-reduce: a split  *)
(* along the contracted dimension outside a ring, or the rows a resplit a  *)
(* produced for an unsplit result.                                         *)
MmReduces(f) ==
    \/ f.gather
    \/ ~MmIsRing(f) /\ (f.sa = Axis1 \/ f.sb = Axis0)

MmPartner(f, r, s) == (r + s) % f.P

(* The rows, inner indices and columns of the local product of rank r in   *)
(* its step s.                                                             *)
MmRows(f, r, s) ==
    IF f.sa = Axis0 THEN Chunk(MmRowCount(f), f.P, r) ELSE 1..MmRowCount(f)

MmInner(f, r, s) ==
    IF MmIsRing(f) /\ f.sa = f.sb THEN Chunk(MmInnerCount(f), f.P, MmPartner(f, r, s))
    ELSE IF f.sa = Axis1 \/ f.sb = Axis0 THEN Chunk(MmInnerCount(f), f.P, r)
    ELSE 1..MmInnerCount(f)

MmCols(f, r, s) ==
    IF f.sb # Axis1 THEN 1..MmColCount(f)
    ELSE IF f.sa = Axis0 THEN Chunk(MmColCount(f), f.P, MmPartner(f, r, s))
    ELSE Chunk(MmColCount(f), f.P, r)

(* The sum of A[i][l] * B[l][j] over the l in L that are at most top. *)
RECURSIVE MmDot(_, _, _, _, _, _)
MmDot(A, B, i, j, L, top) ==
    IF top = 0 THEN 0
    ELSE MmDot(A, B, i, j, L, top - 1) + (IF top \in L THEN A[i][top] * B[top][j] ELSE 0)

(* One local product of rank r, accumulated into its buffer. *)
MmStep(r) ==
    /\ UNCHANGED <<cg, lz, spmd, ds, kr>>
    /\ mm.pc = "run"
    /\ r \in MmRanks(mm)
    /\ mm.step[r] < MmSteps(mm)
    /\ LET s == mm.step[r]
           I == MmRows(mm, r, s)
           L == MmInner(mm, r, s)
           J == MmCols(mm, r, s)
       IN  mm' = [mm EXCEPT
                    !.step[r] = s + 1,
                    !.acc[r] = [i \in 1..MmRowCount(mm) |-> [j \in 1..MmColCount(mm) |->
                                 mm.acc[r][i][j] +
                                   (IF i \in I /\ j \in J
                                      THEN MmDot(mm.a.val, mm.b.val, i, j, L, MmInnerCount(mm))
                                      ELSE 0)]]]

MmAllStepped(f) == \A r \in MmRanks(f) : f.step[r] = MmSteps(f)

RECURSIVE MmSumOver(_, _, _, _)
MmSumOver(acc, i, j, r) ==
    IF r < 0 THEN 0 ELSE acc[r][i][j] + MmSumOver(acc, i, j, r - 1)

(* Allreduce(MPI.SUM) of the buffers, entered by all ranks. *)
MmReduce ==
    /\ UNCHANGED <<cg, lz, spmd, ds, kr>>
    /\ mm.pc = "run"
    /\ MmAllStepped(mm)
    /\ MmReduces(mm) /\ ~mm.reduced
    /\ LET total == [i \in 1..MmRowCount(mm) |-> [j \in 1..MmColCount(mm) |->
                       MmSumOver(mm.acc, i, j, mm.P - 1)]]
       IN  mm' = [mm EXCEPT !.reduced = TRUE, !.acc = [r \in MmRanks(mm) |-> total]]

(* The rank whose buffer holds entry (i, j) of a result that was not       *)
(* reduced: the owner of row i, of column j, or any rank.                  *)
MmOwner(f, i, j) ==
    IF f.sa = Axis0 THEN Owner(i, MmRowCount(f), f.P)
    ELSE IF f.sb = Axis1 THEN Owner(j, MmColCount(f), f.P)
    ELSE 0

(* The global values of the result. *)
MmGlobal(f) ==
    [i \in 1..MmRowCount(f) |-> [j \in 1..MmColCount(f) |->
       IF f.reduced THEN f.acc[0][i][j] ELSE f.acc[MmOwner(f, i, j)][i][j]]]

(* The result of a product with a 1-D operand is 1-D. *)
MmFlat(a, b, C) ==
    IF a.ndim = 1 THEN C[1]
    ELSE IF b.ndim = 1 THEN [i \in 1..Len(C) |-> C[i][1]]
    ELSE C

MmShape(a, b) ==
    IF a.ndim = 1 THEN <<b.shape[2]>>
    ELSE IF b.ndim = 1 THEN <<a.shape[1]>>
    ELSE <<a.shape[1], b.shape[2]>>

MmReturn ==
    /\ UNCHANGED <<cg, lz, spmd, ds, kr>>
    /\ mm.pc = "run"
    /\ MmAllStepped(mm)
    /\ MmReduces(mm) => mm.reduced
    /\ mm' = [mm EXCEPT !.pc = "done",
                        !.ret = [shape |-> MmShape(mm.a, mm.b),
                                 split |-> MmResultSplit(mm.a_arg, mm.b_arg),
                                 val   |-> MmFlat(mm.a, mm.b, MmGlobal(mm))]]

InitMatmul == MmInit /\ cg = CgIdle /\ lz = LzIdle /\ spmd = SpmdIdle /\ ds = DsIdle /\ kr = KrIdle

NextMatmul ==
    \/ MmValidate
    \/ MmPlan
    \/ \E r \in 0..(NProcs - 1) : MmStep(r)
    \/ MmReduce
    \/ MmReturn

SpecMatmul == InitMatmul /\ [][NextMatmul]_vars

(***************************************************************************)
(* Properties of matmul.                                                    *)
(***************************************************************************)
MmReturned == mm.pc = "done" /\ mm.err = None

(* The single-process dense product a_torch @ b_torch of test_matmul. *)
Dense(a, b) ==
    MmFlat(a, b, [i \in 1..Len(a.val) |-> [j \in 1..Len(b.val[1]) |->
                    MmDot(a.val, b.val, i, j, 1..Len(b.val), Len(b.val))]])

(* C12: for every pair of splits of a and b, 1-D operands included, and    *)
(* every number of processes, the global values of matmul(a, b) are those  *)
(* of the dense product of the global operands.                            *)
C12_MmEqualsDense ==
    MmReturned =>
      /\ mm.ret.val = Dense(mm.a_arg, mm.b_arg)
      /\ mm.ret.shape = MmShape(mm.a_arg, mm.b_arg)

(* Two ranks, a split along its rows and b along its columns: each rank    *)
(* has met both column blocks in the ring.                                 *)
C12_Witness ==
    /\ MmReturned
    /\ mm.P = 2
    /\ mm.a_arg.shape = <<3, 2>> /\ mm.a_arg.split = Axis0
    /\ mm.b_arg.shape = <<2, 3>> /\ mm.b_arg.split = Axis1
    /\ mm.step = [r \in 0..1 |-> 2]
    /\ mm.ret.val[3][3] = 6

MmMismatch == mm.a_arg.ndim <= 2 /\ mm.b_arg.ndim <= 2 /\ ~MmFits(mm.a_arg, mm.b_arg)

(* C13: when the inner dimensions disagree (a.shape[-1] # b.shape[0])      *)
(* matmul raises ValueError; it returns no result and has computed and     *)
(* resplit nothing.                                                        *)
C13_MmMismatchRaises ==
    /\ (MmMismatch /\ mm.pc # "check") =>
         /\ mm.pc = "done"
         /\ mm.err = "ValueError"
         /\ mm.ret = None /\ mm.acc = <<>>
         /\ mm.a = mm.a_arg /\ mm.b = mm.b_arg
    /\ (mm.pc = "done" /\ mm.err = "ValueError") => MmMismatch

(* Two square matrices of different sizes, as in the stated case. *)
C13_Witness ==
    /\ mm.pc = "done"
    /\ mm.a_arg.shape = <<2, 2>> /\ mm.b_arg.shape = <<3, 3>>
    /\ mm.err = "ValueError"

MmMatrices == mm.a_arg.ndim = 2 /\ mm.b_arg.ndim = 2

(* C14, as claimed: the result is not split when neither operand is; it is *)
(* split along axis 0 when a is split along axis 0, along axis 1 when only *)
(* b is split, along axis 1; and it is not split when a is split along     *)
(* axis 1 or b along axis 0 (the contracted dimension).                    *)
C14_MmSplitRule ==
    (MmReturned /\ MmMatrices) =>
      mm.ret.split = IF mm.a_arg.split = None /\ mm.b_arg.split = None THEN None
                     ELSE IF mm.a_arg.split = Axis0 THEN Axis0
                     ELSE IF mm.a_arg.split = None /\ mm.b_arg.split = Axis1 THEN Axis1
                     ELSE None

(* C14, amended: the result of two matrices is not split only when neither *)
(* operand is split.  It is split along axis 0 when a is split along axis  *)
(* 0, and along axis 1 when only b is split, along axis 1; a split along   *)
(* the contracted dimension also splits the result: along axis 1 when a is *)
(* split along axis 1, along axis 0 when only b is split, along axis 0.    *)
C14_MmSplitOfTests ==
    (MmReturned /\ MmMatrices) =>
      /\ (mm.a_arg.split = None /\ mm.b_arg.split = None) <=> mm.ret.split = None
      /\ mm.a_arg.split = Axis0 => mm.ret.split = Axis0
      /\ (mm.a_arg.split = None /\ mm.b_arg.split = Axis1) => mm.ret.split = Axis1
      /\ mm.a_arg.split = Axis1 => mm.ret.split = Axis1
      /\ (mm.a_arg.split = None /\ mm.b_arg.split = Axis0) => mm.ret.split = Axis0

(* Both operands split along the contracted dimension: the partial         *)
(* products were reduced and the result is split along axis 1.             *)
C14_Witness ==
    /\ MmReturned /\ MmMatrices
    /\ mm.P = 2
    /\ mm.a_arg.split = Axis1 /\ mm.b_arg.split = Axis0
    /\ mm.reduced
    /\ mm.ret.split = Axis1

MmFlagCase ==
    /\ mm.allow_resplit /\ MmMatrices
    /\ mm.a_arg.split = None /\ mm.b_arg.split = None

(* C15: without allow_resplit matmul leaves the split of both operands as  *)
(* it was.  With allow_resplit and two matrices that are not split, a is   *)
(* split along axis 0 after the call, b is still not split, and the result *)
(* is not split and has the values of the product without the flag.        *)
C15_MmResplitEffect ==
    /\ mm.pc # "idle" =>
         /\ mm.b.split = mm.b_arg.split
         /\ ~mm.allow_resplit => mm.a.split = mm.a_arg.split
         /\ mm.a.val = mm.a_arg.val /\ mm.b.val = mm.b_arg.val
    /\ (MmReturned /\ MmFlagCase) =>
         /\ mm.a.split = Axis0
         /\ mm.ret.split = None
         /\ mm.ret.val = Dense(mm.a_arg, mm.b_arg)

(* The flag was given for two unsplit matrices on two ranks: each rank     *)
(* multiplied its rows of a and the buffers were reduced.                  *)
C15_Witness ==
    /\ MmReturned /\ MmFlagCase
    /\ mm.P = 2
    /\ mm.a_arg.shape = <<2, 2>>
    /\ mm.a.split = Axis0
    /\ mm.reduced

(***************************************************************************)
(* PartialH5Dataset and PartialH5DataLoaderIter, partial_dataset.py.       *)
(*                                                                         *)
(* The file holds total_size elements; element e of the file has the value *)
(* e, so ds.data, the array in memory, is the sequence of the elements in  *)
(* its slots (slot k of Python is position k + 1).  Three threads run: the *)
(* caller (construction, the iterator's __init__ and __next__), the        *)
(* conversion thread (__thread_convert_all) and the loading thread         *)
(* (thread_replace_converted_batches).  ds.lock is the holder of           *)
(* loading_condition.  ds.signals and ds.replaced record the notifications *)
(* and the replacements that have happened.                                *)
(***************************************************************************)
MaxTotal == 4

MaxLoad == 2

(* math.ceil(a / b) for a >= 0, b > 0. *)
Ceil(a, b) == (a + b - 1) \div b

(* f[d][from : to]: the elements from..to-1 that the file has. *)
FileSlice(from, to, total) ==
    LET top == Min(to, total)
    IN  IF from < top THEN [k \in 1..(top - from) |-> from + k - 1] ELSE <<>>

(* No batch yet. *)
NoBatch == [id |-> 0, items |-> <<>>]

DsNew(total, size, rank, validate, initial, length, batch) ==
    [pc |-> "new", total_size |-> total, size |-> size, rank |-> rank,
     validate_set |-> validate, initial_load |-> initial, load_length |-> length,
     batch_size |-> batch,
     lcl_full_sz |-> 0, load_initial |-> 0, partial_dataset |-> FALSE, load_len |-> 0,
     loads_needed |-> 0, loads_left |-> 0, load_start |-> 0, load_end |-> 0,
     data |-> <<>>, hold |-> <<>>, used_indices |-> <<>>,
     convert_queue |-> 0, loading_queue |-> 0, lock |-> None,
     length |-> 0, index_list |-> <<>>, num_yielded |-> 0, ready_batches |-> <<>>,
     delivered |-> <<>>, stops |-> 0,
     cv |-> "idle", k |-> 0, item |-> 0, converted_items |-> <<>>, batches |-> 0,
     ld |-> "idle", ll |-> 0, loads |-> 0, lnew |-> 0,
     signals |-> <<>>, replaced |-> <<>>, reads |-> {},
     labels |-> <<>>, holdlabels |-> <<>>, lnew_labels |-> 0, idx |-> <<>>,
     idx_labels |-> <<>>,
     batch |-> NoBatch, bb |-> 0, bb_batch |-> NoBatch, produced |-> <<>>]

DsInit ==
    \E total \in 1..MaxTotal, size \in 1..NProcs, validate \in BOOLEAN,
       initial \in 1..(MaxLoad + 1), length \in 1..MaxLoad, batch \in 1..MaxLoad :
      \E rank \in 0..(size - 1) :
        ds = DsNew(total, size, rank, validate, initial, length, batch)

(* Only a validation set is loaded as a whole. *)
DsLoadsAllValidate(f) == f.validate_set

(* Line 116: the whole file is loaded on every process. *)
DsLoadsAll(f) == f.validate_set \/ f.initial_load > f.total_size \div f.size

(* __init__, lines 109-155. *)
DsConstruct ==
    /\ UNCHANGED <<cg, lz, spmd, mm, kr>>
    /\ ds.pc = "new"
    /\ LET share == ds.total_size \div ds.size
           all   == DsLoadsAll(ds)
           lcl   == IF all THEN ds.total_size ELSE share
           start == IF all THEN 0 ELSE ds.rank * share
           first == IF all THEN ds.total_size ELSE ds.initial_load
           len   == IF all THEN 0 ELSE ds.load_length
           need  == IF all THEN 0 ELSE Ceil(lcl, len)
       IN  ds' = [ds EXCEPT !.pc = "built", !.lcl_full_sz = lcl, !.load_initial = first,
                            !.partial_dataset = ~all, !.load_len = len,
                            !.loads_needed = need, !.loads_left = need,
                            !.data = FileSlice(start, start + first, ds.total_size),
                            !.labels = FileSlice(start, start + first, ds.total_size),
                            !.load_start = start + first,
                            !.load_end = start + first + len]

(* torch.randperm(n).tolist(): two of the permutations of the slots. *)
Perms(n) == { [k \in 1..n |-> k - 1], [k \in 1..n |-> n - k] }

RECURSIVE IndexLists(_, _)
IndexLists(repeats, n) ==
    IF repeats = 0 THEN { <<>> }
    ELSE { perm \o rest : perm \in Perms(n), rest \in IndexLists(repeats - 1, n) }

(* Lines 253-255: load_len rounded up to a multiple of batch_size. *)
ItLoadLen(load_len, batch) ==
    IF load_len % batch # 0 THEN load_len + (batch - (load_len % batch)) ELSE load_len

(* PartialH5DataLoaderIter.__init__, lines 231-277. *)
ItInit ==
    /\ UNCHANGED <<cg, lz, spmd, mm, kr>>
    /\ ds.pc = "built"
    /\ IF ds.partial_dataset
         THEN \E index_list \in IndexLists(Ceil(ds.lcl_full_sz, ds.load_initial), ds.load_initial) :
                LET len == ItLoadLen(ds.load_len, ds.batch_size)
                IN  ds' = [ds EXCEPT !.pc = "iter", !.load_len = len,
                                     !.load_end = IF len # ds.load_len THEN ds.load_start + len
                                                  ELSE ds.load_end,
                                     !.index_list = index_list,
                                     !.convert_queue = ds.convert_queue + 1,
                                     !.length = Len(index_list) \div ds.batch_size,
                                     !.loading_queue = ds.loading_queue + 1]
         ELSE ds' = [ds EXCEPT !.pc = "iter",
                               !.length = Ceil(ds.total_size, ds.batch_size)]

(* queue_thread of convert_queue takes __thread_convert_all, lines 20-26   *)
(* and 328.                                                                *)
CvTake ==
    /\ UNCHANGED <<cg, lz, spmd, mm, kr>>
    /\ ds.cv = "idle" /\ ds.convert_queue > 0
    /\ ds' = [ds EXCEPT !.convert_queue = ds.convert_queue - 1, !.k = 1,
                        !.converted_items = <<>>,
                        !.cv = IF ds.index_list = <<>> THEN "done" ELSE "read"]

(* Line 331: single_item = self.dataset[ind]. *)
CvRead ==
    /\ UNCHANGED <<cg, lz, spmd, mm, kr>>
    /\ ds.cv = "read"
    /\ LET ind == ds.index_list[ds.k]
       IN  ds' = [ds EXCEPT !.cv = "append", !.item = ds.data[ind + 1],
                            !.reads = ds.reads \cup {ind}]

(* The conversion thread after the item at position k. *)
CvAfter(f) == IF f.k < Len(f.index_list) THEN "read" ELSE "done"

(* Lines 340-342. *)
CvAppend ==
    /\ UNCHANGED <<cg, lz, spmd, mm, kr>>
    /\ ds.cv = "append"
    /\ LET items == Append(ds.converted_items, ds.item)
           f     == [ds EXCEPT !.converted_items = items,
                               !.used_indices = Append(ds.used_indices, ds.index_list[ds.k])]
       IN  ds' = IF Len(items) = ds.batch_size THEN [f EXCEPT !.cv = "check"]
                 ELSE [f EXCEPT !.cv = CvAfter(ds), !.k = ds.k + 1]

(* A notification at every batch, whatever has been used. *)
CvSignalsAlways(f) == TRUE

(* Lines 343-346. *)
CvSignals(f) == Len(f.used_indices) = f.load_len /\ f.loads_left > 0

CvCheck ==
    /\ UNCHANGED <<cg, lz, spmd, mm, kr>>
    /\ ds.cv = "check"
    /\ ds' = IF CvSignals(ds)
               THEN [ds EXCEPT !.cv = "notify",
                               !.signals = Append(ds.signals,
                                   [used |-> Len(ds.used_indices), left |-> ds.loads_left,
                                    items |-> Len(ds.converted_items)])]
               ELSE [ds EXCEPT !.cv = "collate"]

(* Lines 347-348: with loading_condition: notify().  A notification wakes  *)
(* the loading thread if it waits and is lost if it does not.              *)
CvNotify ==
    /\ UNCHANGED <<cg, lz, spmd, mm, kr>>
    /\ ds.cv = "notify"
    /\ ds.lock = None
    /\ ds' = [ds EXCEPT !.cv = "collate",
                        !.ld = IF ds.ld = "wait" THEN "woken" ELSE ds.ld]

(* Line 349: the batch is collated; ds.batch.id is its number in the order *)
(* of production.                                                          *)
CvCollate ==
    /\ UNCHANGED <<cg, lz, spmd, mm, kr>>
    /\ ds.cv = "collate"
    /\ ds' = [ds EXCEPT !.cv = "move", !.bb = 0,
                        !.batch = [id |-> ds.batches + 1, items |-> ds.converted_items]]

(* Lines 350-357, one step of the loop for bb in range(2): the read of     *)
(* ready_batches[bb] (line 352), or the write-back of the batch read       *)
(* (line 355) after its tensors were moved to the device; an IndexError of *)
(* either ends the loop.                                                   *)
CvMove ==
    /\ UNCHANGED <<cg, lz, spmd, mm, kr>>
    /\ ds.cv \in {"move", "moveback"}
    /\ ds' = IF Len(ds.ready_batches) <= ds.bb
               THEN [ds EXCEPT !.cv = "ready"]
             ELSE IF ds.cv = "move"
               THEN [ds EXCEPT !.cv = "moveback",
                               !.bb_batch = ds.ready_batches[ds.bb + 1]]
             ELSE [ds EXCEPT !.cv = IF ds.bb + 1 < 2 THEN "move" ELSE "ready",
                             !.ready_batches[ds.bb + 1] = ds.bb_batch,
                             !.bb = ds.bb + 1]

(* A list of converted items that is emptied after each batch. *)
CvItemsEmptied(items) == <<>>

(* converted_items after a batch: the list of line 328 is never emptied. *)
CvItemsKept(items) == items

(* Line 358: the batch is made ready. *)
CvReady ==
    /\ UNCHANGED <<cg, lz, spmd, mm, kr>>
    /\ ds.cv = "ready"
    /\ ds' = [ds EXCEPT !.cv = CvAfter(ds), !.k = ds.k + 1,
                        !.ready_batches = Append(ds.ready_batches, ds.batch),
                        !.produced = Append(ds.produced, ds.batch),
                        !.converted_items = CvItemsKept(ds.converted_items),
                        !.batches = ds.batches + 1]

(* queue_thread of loading_queue takes thread_replace_converted_batches,   *)
(* lines 20-28 and 196-198.                                                *)
LdStart ==
    /\ UNCHANGED <<cg, lz, spmd, mm, kr>>
    /\ ds.ld = "idle" /\ ds.loading_queue > 0
    /\ ds' = [ds EXCEPT !.loading_queue = ds.loading_queue - 1,
                        !.loads_left = ds.loads_needed, !.ll = ds.loads_needed,
                        !.loads = 0,
                        !.ld = IF ds.loads_needed > 0 THEN "load" ELSE "done"]

(* Lines 199-210: the next elements of the file are read into hold, the    *)
(* window moves on, and the thread waits on loading_condition.             *)
LdLoad ==
    /\ UNCHANGED <<cg, lz, spmd, mm, kr>>
    /\ ds.ld = "load"
    /\ ds.lock = None
    /\ LET end   == IF ds.load_end + ds.size > ds.total_size THEN 0 ELSE ds.load_end
       IN  ds' = [ds EXCEPT !.ld = "wait",
                            !.hold = FileSlice(ds.load_start, ds.load_end, ds.total_size),
                            !.holdlabels = FileSlice(ds.load_start, ds.load_end,
                                                     ds.total_size),
                            !.load_start = end,
                            !.load_end = end + ds.load_len]

(* A wait that returns without a notification. *)
LdWokenAlways(f) == f.ld = "wait" \/ f.ld = "woken"

(* Line 210: wait() returns once the thread was notified. *)
LdWoken(f) == f.ld = "woken"

(* Lines 210-215: the lock is taken again; new_top and lnew. *)
LdTop ==
    /\ UNCHANGED <<cg, lz, spmd, mm, kr>>
    /\ LdWoken(ds)
    /\ ds.lock = None
    /\ ds' = [ds EXCEPT !.ld = "write", !.lock = "ld",
                        !.lnew = Min(Len(ds.hold), Len(ds.used_indices))]

(* dset[indices] = values: later values win over earlier ones. *)
RECURSIVE Assign(_, _, _, _)
Assign(data, indices, values, count) ==
    IF count = 0 THEN data
    ELSE [Assign(data, indices, values, count - 1) EXCEPT ![indices[count] + 1] = values[count]]

(* Lines 216-218 for the first name of dataset_names, "data". *)
LdWrite ==
    /\ UNCHANGED <<cg, lz, spmd, mm, kr>>
    /\ ds.ld = "write"
    /\ ds' = [ds EXCEPT !.ld = "next",
                        !.data = Assign(ds.data, ds.used_indices, ds.hold, ds.lnew),
                        !.idx = SubSeq(ds.used_indices, 1, ds.lnew),
                        !.hold = SubSeq(ds.hold, ds.lnew + 1, Len(ds.hold))]

(* Lines 212-215 for the second name of dataset_names, "labels": new_top   *)
(* and lnew are taken from used_indices as it is now.                      *)
LdTopNext ==
    /\ UNCHANGED <<cg, lz, spmd, mm, kr>>
    /\ ds.ld = "next"
    /\ ds' = [ds EXCEPT !.ld = "write_next",
                        !.lnew_labels = Min(Len(ds.holdlabels), Len(ds.used_indices))]

(* Lines 216-218 for "labels". *)
LdWriteNext ==
    /\ UNCHANGED <<cg, lz, spmd, mm, kr>>
    /\ ds.ld = "write_next"
    /\ ds' = [ds EXCEPT !.ld = "reset",
                        !.labels = Assign(ds.labels, ds.used_indices, ds.holdlabels,
                                          ds.lnew_labels),
                        !.idx_labels = SubSeq(ds.used_indices, 1, ds.lnew_labels),
                        !.holdlabels = SubSeq(ds.holdlabels, ds.lnew_labels + 1,
                                              Len(ds.holdlabels))]

(* Line 220, and the end of the with block. *)
LdReset ==
    /\ UNCHANGED <<cg, lz, spmd, mm, kr>>
    /\ ds.ld = "reset"
    /\ ds' = [ds EXCEPT !.ld = "dec", !.lock = None, !.used_indices = <<>>,
                        !.replaced = Append(ds.replaced,
                            [used |-> ds.used_indices, lnew |-> ds.lnew,
                             signals |-> Len(ds.signals), reads |-> ds.reads,
                             idx |-> ds.idx, idx_labels |-> ds.idx_labels])]

(* Line 221 and the next pass of the loop of line 198. *)
LdDec ==
    /\ UNCHANGED <<cg, lz, spmd, mm, kr>>
    /\ ds.ld = "dec"
    /\ ds' = [ds EXCEPT !.loads_left = ds.loads_left - 1, !.loads = ds.loads + 1,
                        !.ld = IF ds.loads + 1 < ds.ll THEN "load" ELSE "done"]

MaxStops == 2

(* __next__, lines 285-312, of a partial dataset: StopIteration after      *)
(* length batches, else the first ready batch once there is one; of a      *)
(* dataset in memory: the batches of the sampler.                          *)
ItNext ==
    /\ UNCHANGED <<cg, lz, spmd, mm, kr>>
    /\ ds.pc = "iter"
    /\ IF ds.num_yielded = ds.length
         THEN /\ ds.stops < MaxStops
              /\ ds' = [ds EXCEPT !.stops = ds.stops + 1]
         ELSE /\ ds.partial_dataset => ds.ready_batches # <<>>
              /\ ds' = [ds EXCEPT
                          !.num_yielded = ds.num_yielded + 1,
                          !.ready_batches = IF ds.partial_dataset THEN Tail(ds.ready_batches)
                                            ELSE ds.ready_batches,
                          !.delivered = IF ds.partial_dataset
                                          THEN Append(ds.delivered, Head(ds.ready_batches))
                                          ELSE ds.delivered]

InitDataset == DsInit /\ cg = CgIdle /\ lz = LzIdle /\ spmd = SpmdIdle /\ mm = MmIdle /\ kr = KrIdle

NextDataset ==
    \/ DsConstruct
    \/ ItInit
    \/ ItNext
    \/ CvTake
    \/ CvRead
    \/ CvAppend
    \/ CvCheck
    \/ CvNotify
    \/ CvCollate
    \/ CvMove
    \/ CvReady
    \/ LdStart
    \/ LdLoad
    \/ LdTop
    \/ LdWrite
    \/ LdTopNext
    \/ LdWriteNext
    \/ LdReset
    \/ LdDec

SpecDataset == InitDataset /\ [][NextDataset]_vars

(***************************************************************************)
(* Properties of the partial dataset.                                       *)
(***************************************************************************)
DsWholeCase == ds.validate_set \/ ds.initial_load > ds.total_size \div ds.size

(* The elements the constructor loads. *)
DsFirstData ==
    IF DsWholeCase THEN [k \in 1..ds.total_size |-> k - 1]
    ELSE [k \in 1..ds.initial_load |-> ds.rank * (ds.total_size \div ds.size) + k - 1]

Prefix(s, n) == { s[k] : k \in 1..n }

(* The loading thread has written "data" and not yet emptied used_indices. *)
LdWritten == ds.ld \in {"next", "write_next", "reset"}

(* The slots the loading thread has written so far. *)
DsWritten ==
    UNION { Prefix(ds.replaced[k].used, ds.replaced[k].lnew) : k \in 1..Len(ds.replaced) }
    \cup (IF LdWritten THEN Prefix(ds.used_indices, ds.lnew) ELSE {})

C17_DsNoIndexDropped ==
    \A k \in 1..Len(ds.replaced) : ds.replaced[k].lnew = Len(ds.replaced[k].used)

C19_DsWholeOrShare ==
    ds.pc \notin {"idle", "new"} =>
      /\ DsWholeCase =>
           /\ ds.data = [k \in 1..ds.total_size |-> k - 1]
           /\ ~ds.partial_dataset /\ ds.loads_needed = 0
           /\ ds.convert_queue = 0 /\ ds.loading_queue = 0
           /\ ds.cv = "idle" /\ ds.ld = "idle"
           /\ ds.replaced = <<>> /\ ds.signals = <<>>
      /\ ~DsWholeCase =>
           /\ ds.partial_dataset
           /\ (ds.replaced = <<>> /\ ~LdWritten) =>
                ds.data = [k \in 1..ds.initial_load |->
                             ds.rank * (ds.total_size \div ds.size) + k - 1]

(* Not a validation set, but initial_load is more than the share of a      *)
(* process of two: rank 1 holds the whole file and its iterator is through. *)
C19_Witness ==
    /\ ds.pc = "iter"
    /\ ~ds.validate_set /\ ds.size = 2 /\ ds.rank = 1
    /\ ds.total_size = 4 /\ ds.initial_load = 3
    /\ ds.num_yielded = ds.length /\ ds.stops = 1
    /\ Len(ds.data) = 4

(***************************************************************************)
(* lanczos with its values, solver.py lines 109-184, for a symmetric A, an *)
(* integer m with 1 <= m <= n and P processes.                             *)
(*                                                                         *)
(* Column j of V is a vector of norm 1; kr.dirs[j] is a vector u of        *)
(* rational numbers with V[:, j] = u / norm(u).  w is kept as kr.z and     *)
(* kr.s2 with w = sqrt(s2) * z, so that beta = norm(w) has the square      *)
(* s2 * (z . z).  The random vectors are drawn from a set of directions.   *)
(***************************************************************************)
MaxK == 4

KrNames(n) ==
    IF n <= 4
      THEN {"Identity", "Twice", "Diag", "Laplace", "Ones", "Reverse", "Zero", "Signs"}
      ELSE {"Identity", "Twice", "Laplace", "Zero"}

KrMatrices(n) == { Square(n, name).val : name \in KrNames(n) }

KrUnit(n, k) == [l \in 1..n |-> IF l = k THEN Num(1) ELSE Zero]

(* A starting vector that is given has norm 1. *)
KrStarts(n) ==
    { KrUnit(n, 1), KrUnit(n, n) }
    \cup (IF n \in {2, 3} THEN { [l \in 1..n |-> IF l = 1 THEN Rat(3, 5)
                                           ELSE IF l = 2 THEN Rat(4, 5) ELSE Zero] }
          ELSE {})

(* The directions of ht.random.rand(n). *)
KrRandoms(n) == { Ones(n).val, Ramp(n).val, KrUnit(n, n) }

RECURSIVE ISqrtIn(_, _, _)
ISqrtIn(n, lo, hi) ==
    IF lo >= hi THEN lo
    ELSE LET mid == (lo + hi + 1) \div 2
         IN  IF mid * mid <= n THEN ISqrtIn(n, mid, hi) ELSE ISqrtIn(n, lo, mid - 1)

ISqrt(n) == ISqrtIn(n, 0, Min(n, 46340))

(* The square root of a rational that is a square, nan otherwise. *)
RatSqrt(q) ==
    IF ~IsFinite(q) \/ q[1] < 0 THEN NaN
    ELSE LET a == ISqrt(q[1])
             b == ISqrt(q[2])
         IN  IF a * a = q[1] /\ b * b = q[2] THEN <<a, b>> ELSE NaN

KrLcm(a, c) == (a \div Gcd(a, c)) * c

RECURSIVE KrDenominator(_, _)
KrDenominator(u, k) == IF k = 0 THEN 1 ELSE KrLcm(KrDenominator(u, k - 1), u[k][2])

RECURSIVE KrContent(_, _)
KrContent(ints, k) == IF k = 0 THEN 0 ELSE Gcd(KrContent(ints, k - 1), Abs(ints[k]))

(* u = t * v for t > 0 and a vector v of integers without a common factor: *)
(* u / norm(u) = v / norm(v).                                              *)
KrReduce(u) ==
    IF \E k \in 1..Len(u) : ~IsFinite(u[k]) THEN [v |-> u, t |-> Num(1)]
    ELSE LET L    == KrDenominator(u, Len(u))
             ints == [k \in 1..Len(u) |-> u[k][1] * (L \div u[k][2])]
             g    == KrContent(ints, Len(u))
         IN  IF g = 0 THEN [v |-> u, t |-> Num(1)]
             ELSE [v |-> [k \in 1..Len(u) |-> Num(ints[k] \div g)], t |-> Rat(g, L)]

(* w = sqrt(s2) * z with z reduced. *)
KrResidual(f, z, s2) ==
    LET red == KrReduce(z)
    IN  [f EXCEPT !.z = red.v, !.s2 = Mul(s2, Mul(red.t, red.t))]

KrCall(A, n, m, P, split, v0) ==
    [pc |-> "start", A |-> A, n |-> n, m |-> m, P |-> P, split |-> split, v0 |-> v0,
     dirs |-> <<>>, z |-> <<>>, s2 |-> Zero, beta2 |-> Zero, vi |-> <<>>, i |-> 0,
     path |-> <<>>, V_split |-> None]

KrInit ==
    \E n \in 1..MaxK, P \in 1..NProcs, split \in {None, Axis0} :
      \E A \in KrMatrices(n), m \in 1..n, v0 \in KrStarts(n) \cup { <<>> } :
        kr = KrCall(A, n, m, P, split, v0)

(* Lines 124-128, for v0 = u / norm(u). *)
KrStep0(f, v) ==
    LET u     == KrReduce(v).v
        q     == Dot(u, u)
        Au    == MatVec(f.A, u)
        alpha == Div(Dot(Au, u), q)
    IN  KrResidual([f EXCEPT !.pc = IF f.m > 1 THEN "head" ELSE "return",
                             !.dirs = <<u>>, !.i = 1,
                             !.V_split = LzBasisSplit(f.split)],
                   VecSub(Au, Scale(alpha, u)), Div(Num(1), q))

(* Lines 109-128. *)
KrFirst ==
    /\ UNCHANGED <<cg, lz, spmd, mm, ds>>
    /\ kr.pc = "start"
    /\ IF kr.v0 = <<>>
         THEN \E vr \in KrRandoms(kr.n) : kr' = KrStep0(kr, vr)
         ELSE kr' = KrStep0(kr, kr.v0)

RECURSIVE KrSum(_, _)
KrSum(f, r) == IF r < 0 THEN Zero ELSE Add(f[r], KrSum(f, r - 1))

(* torch.dot of the local tiles of x and y on process r. *)
KrLocalDot(x, y, f, r) ==
    IF f.V_split = Axis0
      THEN SumSeq([k \in 1..f.n |-> IF k \in Chunk(f.n, f.P, r)
                                      THEN Mul(x[k], y[k]) ELSE Zero])
      ELSE Dot(x, y)

(* Allreduce(IN_PLACE, ., SUM) of the local dot products. *)
KrAllreduce(x, y, f) == KrSum([r \in 0..(f.P - 1) |-> KrLocalDot(x, y, f, r)], f.P - 1)

(* A step that leaves the vector as it is. *)
KrProjectNone(vr, u, f) == vr

(* Lines 137-142 and 152-157 for the column u / norm(u): a / b does not    *)
(* change when the column is scaled.                                       *)
KrProject(vr, u, f) ==
    LET a == KrAllreduce(vr, u, f)
        b == KrAllreduce(u, u, f)
    IN  VecSub(vr, Scale(Div(a, b), u))

(* for j in range(i) *)
RECURSIVE KrOrth(_, _, _)
KrOrth(vr, f, j) ==
    IF j > Len(f.dirs) THEN vr ELSE KrOrth(KrProject(vr, f.dirs[j], f), f, j + 1)

(* Line 130: the square of beta = norm(w). *)
KrBeta2(f) == Mul(f.s2, Dot(f.z, f.z))

(* Lines 131-144.  A vector of ht.random.rand lies outside the span of the *)
(* stored columns.                                                         *)
KrBreakdown ==
    /\ UNCHANGED <<cg, lz, spmd, mm, ds>>
    /\ kr.pc = "head"
    /\ SqrtBelowTol(KrBeta2(kr))
    /\ \E vr \in KrRandoms(kr.n) :
         LET g == KrOrth(vr, kr, 1)
         IN  /\ Dot(g, g) # Zero
             /\ kr' = [kr EXCEPT !.pc = "advance", !.beta2 = KrBeta2(kr),
                                 !.vi = KrReduce(g).v,
                                 !.path = Append(@, "breakdown")]

(* Lines 145-159. *)
KrNormal ==
    /\ UNCHANGED <<cg, lz, spmd, mm, ds>>
    /\ kr.pc = "head"
    /\ ~SqrtBelowTol(KrBeta2(kr))
    /\ kr' = [kr EXCEPT !.pc = "advance", !.beta2 = KrBeta2(kr),
                        !.vi = KrReduce(KrOrth(kr.z, kr, 1)).v,
                        !.path = Append(@, "normal")]

(* Lines 161-169, for vi = u / norm(u) and V[:, i - 1] = p / norm(p):     *)
(* w = (A u - alpha u - c p) / norm(u) with c = beta * norm(u) / norm(p). *)
KrAdvance ==
    /\ UNCHANGED <<cg, lz, spmd, mm, ds>>
    /\ kr.pc = "advance"
    /\ LET u     == kr.vi
           p     == kr.dirs[kr.i]
           q     == Dot(u, u)
           Au    == MatVec(kr.A, u)
           alpha == Div(Dot(Au, u), q)
           c     == RatSqrt(Div(Mul(kr.beta2, q), Dot(p, p)))
       IN  kr' = KrResidual([kr EXCEPT !.pc = IF kr.i + 1 < kr.m THEN "head" ELSE "return",
                                       !.dirs = Append(@, u), !.i = @ + 1],
                            VecSub(VecSub(Au, Scale(alpha, u)), Scale(c, p)),
                            Div(Num(1), q))

(* Lines 171-184. *)
KrReturn ==
    /\ UNCHANGED <<cg, lz, spmd, mm, ds>>
    /\ kr.pc = "return"
    /\ kr' = [kr EXCEPT !.pc = "done", !.V_split = None]

InitKrylov == KrInit /\ cg = CgIdle /\ lz = LzIdle /\ spmd = SpmdIdle /\ mm = MmIdle /\ ds = DsIdle

NextKrylov == KrFirst \/ KrBreakdown \/ KrNormal \/ KrAdvance \/ KrReturn

SpecKrylov == InitKrylov /\ [][NextKrylov]_vars

KrReturned == kr.pc = "done"

C20_WitnessBreakdown ==
    /\ KrReturned
    /\ kr.P = 2
    /\ \E j \in 1..Len(kr.path), k \in 1..Len(kr.path) :
         kr.path[j] = "breakdown" /\ kr.path[k] = "normal"

(***************************************************************************)
(* cg called with an x0 that already solves the system.                    *)
(***************************************************************************)
CgSolvedCase ==
    /\ CgTypesPass /\ ~CgRankFails
    /\ LET r == CgResidual(cg.A.val, cg.b.val, cg.x0.val)
       IN  \A k \in 1..Len(r) : r[k] = Zero

(* C24: when the initial residual b - A x0 is zero, cg returns a vector    *)
(* equal to x0 (the convergence test comes before any division by p.Ap or  *)
(* by rsold).                                                              *)
C24_CgSolvedReturnsX0 == (CgSolvedCase /\ CgReturned) => cg.ret = cg.x0.val

(***************************************************************************)
(* The tiles, the Gram-Schmidt steps and the inputs of lanczos.            *)
(***************************************************************************)
LzOrthogonalizing == lz.pc = "orthogonalize" /\ lz.j < lz.i

(* C23: whenever lanczos is about to orthogonalize the candidate vector    *)
(* against a stored column, the two have local tiles of the same length on *)
(* every process, for every split axis of A and every process count, so    *)
(* that each local dot product is defined.                                 *)
C23_LzTilesEqual == LzOrthogonalizing => LzTilesFit(lz)

(* C25: in iteration i the candidate has been orthogonalized against the   *)
(* columns 0..j-1, in this order and with two all-reduces each, when the   *)
(* step for column j is next; it is normalized after all i columns; a call *)
(* that returns has issued m(m-1) all-reduces, whatever its paths.         *)
C25_LzGramSchmidtEveryStep ==
    /\ (lz.pc = "orthogonalize") =>
         lz.j <= lz.i /\ lz.calls.allreduce = lz.i * (lz.i - 1) + 2 * lz.j
    /\ (lz.pc = "advance") =>
         lz.j = lz.i /\ lz.calls.allreduce = lz.i * (lz.i + 1)
    /\ LzReturned => lz.calls.allreduce = lz.m.val * (lz.m.val - 1)

(* A call of 3 iterations that took both paths and returned. *)
C25_Witness ==
    /\ LzReturned
    /\ lz.m.val = 3
    /\ lz.path = <<"breakdown", "normal">>
    /\ lz.calls.allreduce = 6

(* C27: no step of lanczos changes A or the caller's v0, neither the split *)
(* axis nor the contents.                                                  *)
C27_LzInputsKept == [][lz'.A = lz.A /\ lz'.v0_arg = lz.v0_arg]_vars

(* C27, amended: no step of lanczos changes A, or the shape or contents of *)
(* the caller's v0; the split axis of the caller's v0 is changed by line   *)
(* 121 alone, to the split of V (axis 0 when A is split along axis 0,      *)
(* else None) when it was another.                                         *)
C27_LzInputsKeptButSplit ==
    [][/\ lz'.A = lz.A
       /\ lz'.v0_arg.shape = lz.v0_arg.shape
       /\ lz'.v0_arg.content = lz.v0_arg.content
       /\ lz'.v0_arg.split =
            IF lz.pc = "start" /\ lz.v0_arg # NoArray
              THEN (IF lz.A.split = Axis0 THEN Axis0 ELSE None)
              ELSE lz.v0_arg.split]_vars

(* A call that returned after line 121 made the caller's v0, given split   *)
(* along axis 0, unsplit: V is not split, so no other resplit was issued.  *)
C27_Witness ==
    /\ LzReturned
    /\ lz.A.split = Axis1
    /\ lz.v0_arg # NoArray /\ lz.v0_arg.split = None
    /\ lz.calls.resplit = 1

(***************************************************************************)
(* The slices of the file a process of a partial dataset reads.            *)
(***************************************************************************)
DsOwn(f, x) == f.rank * f.lcl_full_sz <= x /\ x < (f.rank + 1) * f.lcl_full_sz

(* C28: every element a process of a partial dataset has read from the     *)
(* file, at construction (data) or in a later load (hold, and from there   *)
(* data), is an element of the partition of the process,                   *)
(* rank * lcl_full_sz <= x < (rank + 1) * lcl_full_sz.                     *)
C28_DsReadsOwnPartition ==
    (ds.pc # "new" /\ ds.partial_dataset) =>
      /\ \A k \in 1..Len(ds.data) : DsOwn(ds, ds.data[k])
      /\ \A k \in 1..Len(ds.hold) : DsOwn(ds, ds.hold[k])

DsCaller == DsConstruct \/ ItInit \/ ItNext

DsConverter == CvTake \/ CvRead \/ CvAppend \/ CvCheck \/ CvNotify \/ CvCollate \/ CvMove \/ CvReady

DsLoader == LdStart \/ LdLoad \/ LdTop \/ LdWrite \/ LdTopNext \/ LdWriteNext \/ LdReset \/ LdDec

SpecDatasetFair ==
    /\ InitDataset
    /\ [][NextDataset]_vars
    /\ WF_vars(DsCaller) /\ WF_vars(DsConverter) /\ WF_vars(DsLoader)

(* C21: once the iterator of a partial dataset has put                     *)
(* thread_replace_converted_batches into the loading queue, the loading    *)
(* thread eventually has made all loads_needed replacement steps and       *)
(* returned: it does not wait on loading_condition forever.                *)
C21_LdEventuallyReturns ==
    (ds.pc = "iter" /\ ds.partial_dataset) ~> (ds.ld = "done" /\ ds.loads = ds.loads_needed)

====
